---- MODULE Spec2Model ----
(***************************************************************************)
(* Model of the chunked concurrent range query of web3-toolkit:           *)
(* query.PaginatedQuery in its two versions, src/query/query.go (workers  *)
(* retry a failed fetch forever) and src/unnamed/part_006 (one attempt    *)
(* per chunk).  One behaviour is one call of PaginatedQuery: the caller's *)
(* goroutine, MaxWorkers worker goroutines, the producer goroutine and    *)
(* the goroutine that closes the result channel, communicating through    *)
(* the two buffered channels workChan and resultChan.                     *)
(***************************************************************************)
EXTENDS Integers, Sequences, FiniteSets, TLC

\* ---------------------------------------------------------------- bounds
MaxFrom == 1
MaxBlock == 4
MaxChunk == 3
MaxW == 2
MaxBad == 1

\* ------------------------------------------------------ program constants
DefaultMaxWorkers == 5
DefaultChunkSize == 10000

\* a nil *big.Int (block numbers are >= 0)
Nil == 0 - 1

Impls == {"retry", "once"}

VARIABLES
    impl,          \* "retry": src/query/query.go, "once": src/unnamed/part_006
    config,        \* QueryConfig as passed by the caller
    cancelled,     \* ctx.Done() is closed
    pc,            \* position of the caller's goroutine in PaginatedQuery
    ret,           \* what PaginatedQuery returned
    workChan, workClosed,
    resultChan, resultClosed,
    wpc, wtask, wres,   \* per worker: position, work item, fetch outcome
    ppc, currentBlock,  \* producer goroutine
    cpc,                \* goroutine running wg.Wait(); close(resultChan)
    allLogs, errors, totalChunks, successfulChunks,
    enqueued,      \* history: chunks the producer put on workChan, in order
    fetches,       \* history: block ranges passed to client.FilterLogs
    lateFetch,     \* history: a worker called FilterLogs after cancellation
    received,      \* history: chunks whose QueryResult the collector received
    failed,        \* history: failed results sent by workers (range, worker)
    badFrom,       \* the endpoint always errors on a range starting here (Nil: none)
    chain,         \* SearchBundle: the ledger, block -> transactions -> receipt logs
    sbcfg,         \* BundleSearchConfig as passed by the caller
    sbpc,          \* position of the caller's goroutine in SearchBundle
    sbret,         \* what SearchBundle returned
    todo,          \* keys of blockTxMap the block loop has not visited yet
    curBlk,        \* block of the current iteration
    vpc, vstep,    \* per start index: position and step i of findBundleInBlock
    bundleChan, bundleClosed,
    vcl,           \* goroutine running wg.Wait(); close(bundleChan)
    bundles,
    rcptFetches,   \* history: <<block, index>> passed to TransactionReceipt
    blockFetches,  \* history: blocks passed to BlockByNumber
    midCancel,     \* history: cancelled while blocks were still being processed
    lostBlocks,    \* history: blocks whose BlockByNumber call failed
    lostCands,     \* history: <<block, start>> that hit a failed receipt fetch
    hreq,          \* HistoryRequest of the caller: Limit and Offset (Nil: absent)
    hsrv,          \* number of entries the history endpoint holds for the request
    hpc,           \* position of the caller's goroutine in HistoryPaginated
    offset,        \* its local variable offset
    allHistory,
    hret,          \* what HistoryPaginated returned
    pageReqs,      \* history: <<limit, offset>> of every History call, in order
    rpc,           \* position of the goroutine running ReadStreamWithRetry
    eventChan, evCap,
    line,          \* lines of the current response body the scanner has read
    attempts,      \* history: number of ReadStream calls so far
    sinceFail,     \* history: "failed" after a stream error, "waited" after the delay
    taken,         \* history: number of events the consumer took from eventChan
    lost           \* history: events read but given up when ctx was cancelled

vars == <<impl, config, cancelled, pc, ret, workChan, workClosed, resultChan,
          resultClosed, wpc, wtask, wres, ppc, currentBlock, cpc, allLogs,
          errors, totalChunks, successfulChunks, enqueued, fetches,
          lateFetch, received, failed, badFrom, chain, sbcfg, sbpc, sbret,
          todo, curBlk, vpc, vstep, bundleChan, bundleClosed, vcl, bundles,
          rcptFetches, blockFetches, midCancel, lostBlocks, lostCands,
          hreq, hsrv, hpc, offset, allHistory, hret, pageReqs,
          rpc, eventChan, evCap, line, attempts, sinceFail,
             taken, lost>>

\* variables of the mevshare client: HistoryPaginated and ReadStreamWithRetry
mevVars == <<hreq, hsrv, hpc, offset, allHistory, hret, pageReqs,
             rpc, eventChan, evCap, line, attempts, sinceFail,
             taken, lost>>

\* ------------------------------------------------------------ pure parts

Min(a, b) == IF a < b THEN a ELSE b

\* if config.MaxWorkers <= 0 { config.MaxWorkers = 5 }
EffMaxWorkers(c) == IF c.MaxWorkers <= 0 THEN DefaultMaxWorkers ELSE c.MaxWorkers

\* if config.ChunkSize <= 0 { config.ChunkSize = 10000 }
EffChunkSize(c) == IF c.ChunkSize <= 0 THEN DefaultChunkSize ELSE c.ChunkSize

\* the two validation returns
InvalidInputNoOrder(c) == c.FromBlock = Nil \/ c.ToBlock = Nil

InvalidInput(c) ==
    \/ c.FromBlock = Nil \/ c.ToBlock = Nil
    \/ c.FromBlock > c.ToBlock

\* blockRange.Cmp(big.NewInt(config.ChunkSize)) <= 0, blockRange = To - From
SingleQueryPath(c) == c.ToBlock - c.FromBlock <= EffChunkSize(c)

\* cap of both channels: make(chan ..., config.MaxWorkers*2)
ChanCap(c) == 2 * EffMaxWorkers(c)

\* chunkEnd := currentBlock + ChunkSize - 1, clipped to ToBlock
ChunkEndWide(c, cur) == Min(cur + EffChunkSize(c), c.ToBlock)

ChunkEndByLoad(c, cur) ==
    IF workChan = <<>> THEN Min(cur + EffChunkSize(c) - 1, c.ToBlock) ELSE cur

ChunkEndNoClip(c, cur) == cur + EffChunkSize(c) - 1

ChunkEnd(c, cur) == Min(cur + EffChunkSize(c) - 1, c.ToBlock)

\* loop condition of the producer: currentBlock.Cmp(config.ToBlock) < 0
ProducerMore(c, cur) == cur < c.ToBlock

\* The fetch capability on success: the ledger carries one log per block,
\* FilterLogs returns the logs of blocks a..b in block order.
FilterLogs(a, b) == [i \in 1..(b - a + 1) |-> a + i - 1]

\* for i := 0; i < config.MaxWorkers; i++ { wg.Add(1); go func(workerID int) ... }
WorkersOnlyOne == 1..1

Workers == 1..EffMaxWorkers(config)

\* ids of the workers a call can start: MaxWorkers of them, 5 by default
AllWorkerIds == 1..(IF MaxW > DefaultMaxWorkers THEN MaxW ELSE DefaultMaxWorkers)

NoResult == [Logs |-> <<>>, FromBlock |-> Nil, ToBlock |-> Nil, Err |-> FALSE, WorkerID |-> 0]

\* allLogs = append(allLogs, result.Logs...)
MergeLogsReversed(all, logs) == all \o [i \in 1..Len(logs) |-> logs[Len(logs) + 1 - i]]

MergeLogsOverwrite(all, logs) == logs

MergeLogs(all, logs) == all \o logs

\* for work := range workChan ends when the channel is closed and drained
RangeEndsAtClose(q, closed) == closed

RangeEnds(q, closed) == closed /\ q = <<>>

\* wg.Wait() returns when every worker has run its deferred wg.Done()
WgAnyDone(st, n) == \E w \in 1..n : st[w] = "done"

WgZero(st, n) == \A w \in 1..n : st[w] = "done"

\* if ctx.Err() != nil after the collection loop
CtxErrIgnored(c) == FALSE

CtxErr(c) == c

\* ------------------------------------------- SearchBundle: data and idle

sbVars == <<chain, sbcfg, sbpc, sbret, todo, curBlk, vpc, vstep, bundleChan,
            bundleClosed, vcl, bundles, rcptFetches, blockFetches, midCancel,
            lostBlocks, lostCands>>

\* transaction indices of the largest block of the mock ledger
TxIdx == 0..4

NoSBConfig == [EventSignatures |-> <<>>, Addresses |-> <<>>, StartBlock |-> Nil,
               EndBlock |-> Nil, MaxWorkers |-> 0, ChunkSize |-> 0]

\* no call of the mevshare client in this behaviour
MevIdle ==
    /\ hreq = [Limit |-> Nil, Offset |-> Nil]
    /\ hsrv = 0
    /\ hpc = "none"
    /\ offset = 0
    /\ allHistory = <<>>
    /\ hret = [entries |-> <<>>, err |-> "pending"]
    /\ pageReqs = <<>>
    /\ rpc = "none"
    /\ eventChan = <<>> /\ evCap = 0
    /\ line = 0
    /\ attempts = 0
    /\ sinceFail = "none"
    /\ taken = 0 /\ lost = 0

\* no SearchBundle call in this behaviour
SBIdle ==
    /\ chain = <<>>
    /\ sbcfg = NoSBConfig
    /\ sbpc = "none"
    /\ sbret = [bundles |-> <<>>, err |-> "pending"]
    /\ todo = {} /\ curBlk = Nil
    /\ vpc = [i \in TxIdx |-> "none"]
    /\ vstep = [i \in TxIdx |-> 0]
    /\ bundleChan = <<>> /\ bundleClosed = FALSE
    /\ vcl = "none"
    /\ bundles = <<>>
    /\ rcptFetches = {} /\ blockFetches = {}
    /\ midCancel = FALSE
    /\ lostBlocks = {} /\ lostCands = {}

\* the logs step 1 of SearchBundle asks for: topic 0 is the first signature
\* and the emitter is Addresses[0], in blocks a..b, in ledger order
RECURSIVE ChainLogsFrom(_, _, _, _)
ChainLogsFrom(b, last, t, l) ==
    IF b > last THEN <<>>
    ELSE IF b + 1 > Len(chain) THEN <<>>
    ELSE IF t > Len(chain[b + 1]) THEN ChainLogsFrom(b + 1, last, 1, 1)
    ELSE IF l > Len(chain[b + 1][t]) THEN ChainLogsFrom(b, last, t + 1, 1)
    ELSE LET lg == chain[b + 1][t][l]
             rest == ChainLogsFrom(b, last, t, l + 1)
         IN IF lg.Topic0 = sbcfg.EventSignatures[1]
               /\ lg.Address = sbcfg.Addresses[1]
              THEN <<[BlockNumber |-> b, TxIndex |-> t - 1,
                      Address |-> lg.Address, Topic0 |-> lg.Topic0]>> \o rest
              ELSE rest

ChainFilterLogs(a, b) == ChainLogsFrom(a, b, 1, 1)

\* From block 100 on the ledger of the range query carries a log only in
\* every 2500th block (100, 2600, 5100, ...): FilterLogs on blocks a..b
HighFilterLogs(a, b) ==
    LET kmin == (a - 100 + 2499) \div 2500
        kmax == (b - 100) \div 2500
    IN [i \in 1..(kmax - kmin + 1) |-> 100 + 2500 * (kmin + i - 1)]

\* what client.FilterLogs returns on success in this behaviour
FetchedLogs(a, b) ==
    IF sbpc # "none" THEN ChainFilterLogs(a, b)
    ELSE IF a >= 100 THEN HighFilterLogs(a, b)
    ELSE FilterLogs(a, b)

\* ------------------------------------------------------------------ Init

Init ==
    /\ impl \in Impls
    /\ config \in [FromBlock : {Nil} \cup 0..MaxFrom,
                   ToBlock : {Nil} \cup 0..MaxBlock,
                   MaxWorkers : 1..MaxW,
                   ChunkSize : 0..MaxChunk]
    /\ cancelled = FALSE
    /\ pc = "entry"
    /\ ret = [logs |-> <<>>, err |-> "pending"]
    /\ workChan = <<>> /\ workClosed = FALSE
    /\ resultChan = <<>> /\ resultClosed = FALSE
    /\ wpc = [w \in AllWorkerIds |-> "none"]
    /\ wtask = [w \in AllWorkerIds |-> <<Nil, Nil>>]
    /\ wres = [w \in AllWorkerIds |-> NoResult]
    /\ ppc = "none" /\ currentBlock = Nil
    /\ cpc = "none"
    /\ allLogs = <<>> /\ errors = <<>>
    /\ totalChunks = 0 /\ successfulChunks = 0
    /\ enqueued = <<>> /\ fetches = {} /\ lateFetch = FALSE
    /\ received = <<>>
    /\ failed = {}
    /\ badFrom \in {Nil} \cup 0..MaxBad
    /\ SBIdle
    /\ MevIdle

\* ------------------------------------------------- the caller's goroutine

hist == <<enqueued, fetches, lateFetch, received, failed>>
chans == <<workChan, workClosed, resultChan, resultClosed>>
workerVars == <<wpc, wtask, wres>>
collectVars == <<allLogs, errors, totalChunks, successfulChunks>>

\* ctx is cancelled by the caller at any moment before PaginatedQuery returns
Cancel ==
    /\ ~cancelled
    /\ pc # "returned"
    /\ cancelled' = TRUE
    /\ UNCHANGED <<mevVars, sbVars, impl, badFrom, config, pc, ret, chans, workerVars, ppc,
                   currentBlock, cpc, collectVars, hist>>

\* validation failed: return nil, fmt.Errorf(...)
EnterInvalid ==
    /\ pc = "entry"
    /\ InvalidInput(config)
    /\ pc' = "returned"
    /\ ret' = [logs |-> <<>>, err |-> "validation"]
    /\ UNCHANGED <<mevVars, sbVars, impl, badFrom, config, cancelled, chans, workerVars, ppc,
                   currentBlock, cpc, collectVars, hist>>

\* range within chunk size: the caller itself calls client.FilterLogs
EnterSingle ==
    /\ pc = "entry"
    /\ ~InvalidInput(config)
    /\ SingleQueryPath(config)
    /\ pc' = IF cancelled THEN "singleDoomed" ELSE "single"
    /\ fetches' = fetches \cup {<<config.FromBlock, config.ToBlock>>}
    /\ UNCHANGED <<mevVars, sbVars, impl, badFrom, config, cancelled, ret, chans, workerVars, ppc,
                   currentBlock, cpc, collectVars, enqueued, lateFetch,
                   received, failed>>

SingleOK ==
    /\ pc = "single"
    /\ config.FromBlock # badFrom
    /\ pc' = "returned"
    /\ ret' = [logs |-> FetchedLogs(config.FromBlock, config.ToBlock), err |-> "nil"]
    /\ UNCHANGED <<mevVars, sbVars, impl, badFrom, config, cancelled, chans, workerVars, ppc,
                   currentBlock, cpc, collectVars, hist>>

\* a call on a cancelled context can only fail
SingleFail ==
    /\ pc \in {"single", "singleDoomed"}
    /\ pc' = "returned"
    /\ ret' = [logs |-> <<>>, err |-> "single"]
    /\ UNCHANGED <<mevVars, sbVars, impl, badFrom, config, cancelled, chans, workerVars, ppc,
                   currentBlock, cpc, collectVars, hist>>

\* make the channels, start the workers, the producer and the closer
EnterPool ==
    /\ pc = "entry"
    /\ ~InvalidInput(config)
    /\ ~SingleQueryPath(config)
    /\ pc' = "collect"
    /\ wpc' = [w \in AllWorkerIds |-> IF w \in Workers THEN "recv" ELSE "none"]
    /\ ppc' = "loop"
    /\ currentBlock' = config.FromBlock
    /\ cpc' = "wait"
    /\ UNCHANGED <<mevVars, sbVars, impl, badFrom, config, cancelled, ret, chans, wtask, wres,
                   collectVars, hist>>

\* for result := range resultChan { ... }
CollectRecv ==
    /\ pc = "collect"
    /\ resultChan # <<>>
    /\ LET result == Head(resultChan) IN
         /\ resultChan' = Tail(resultChan)
         /\ totalChunks' = totalChunks + 1
         /\ received' = Append(received, <<result.FromBlock, result.ToBlock>>)
         /\ IF result.Err
              THEN /\ errors' = Append(errors, [FromBlock |-> result.FromBlock,
                                                 ToBlock |-> result.ToBlock,
                                                 WorkerID |-> result.WorkerID])
                   /\ UNCHANGED <<allLogs, successfulChunks>>
              ELSE /\ successfulChunks' = successfulChunks + 1
                   /\ allLogs' = MergeLogs(allLogs, result.Logs)
                   /\ UNCHANGED errors
    /\ UNCHANGED <<mevVars, sbVars, impl, badFrom, config, cancelled, pc, ret, workChan, workClosed,
                   resultClosed, workerVars, ppc, currentBlock, cpc,
                   enqueued, fetches, lateFetch, failed>>

\* resultChan closed and drained: the three returns after the loop
CollectDoneAtWorkClosed ==
    /\ pc = "collect"
    /\ RangeEnds(resultChan, workClosed)
    /\ pc' = "returned"
    /\ ret' = IF CtxErr(cancelled) THEN [logs |-> <<>>, err |-> "cancelled"]
              ELSE IF Len(errors) > 0 THEN [logs |-> <<>>, err |-> "aggregate"]
              ELSE [logs |-> allLogs, err |-> "nil"]
    /\ UNCHANGED <<mevVars, sbVars, impl, badFrom, config, cancelled, chans, workerVars, ppc,
                   currentBlock, cpc, collectVars, hist>>

CollectDone ==
    /\ pc = "collect"
    /\ RangeEnds(resultChan, resultClosed)
    /\ pc' = "returned"
    /\ ret' = IF CtxErr(cancelled) THEN [logs |-> <<>>, err |-> "cancelled"]
              ELSE IF Len(errors) > 0 THEN [logs |-> <<>>, err |-> "aggregate"]
              ELSE [logs |-> allLogs, err |-> "nil"]
    /\ UNCHANGED <<mevVars, sbVars, impl, badFrom, config, cancelled, chans, workerVars, ppc,
                   currentBlock, cpc, collectVars, hist>>

\* ------------------------------------------------------------ the workers

\* work received from workChan (the producer only sends pairs, so the
\* len(work) != 2 branch is never taken); the first FilterLogs call for it
\* is issued
WorkerRecv(w) ==
    /\ wpc[w] = "recv"
    /\ workChan # <<>>
    /\ wtask' = [wtask EXCEPT ![w] = Head(workChan)]
    /\ workChan' = Tail(workChan)
    /\ wpc' = [wpc EXCEPT ![w] = IF cancelled THEN "doomed" ELSE "infetch"]
    /\ fetches' = fetches \cup {Head(workChan)}
    /\ lateFetch' = (lateFetch \/ cancelled)
    /\ UNCHANGED <<mevVars, sbVars, impl, badFrom, config, cancelled, pc, ret, workClosed, resultChan,
                   resultClosed, wres, ppc, currentBlock, cpc, collectVars,
                   enqueued, received, failed>>

\* workChan closed and drained: the range loop ends, deferred wg.Done()
WorkerExit(w) ==
    /\ wpc[w] = "recv"
    /\ RangeEnds(workChan, workClosed)
    /\ wpc' = [wpc EXCEPT ![w] = "done"]
    /\ UNCHANGED <<mevVars, sbVars, impl, badFrom, config, cancelled, pc, ret, chans, wtask, wres, ppc,
                   currentBlock, cpc, collectVars, hist>>

WorkerFetchOK(w) ==
    /\ wpc[w] = "infetch"
    /\ wtask[w][1] # badFrom
    /\ wres' = [wres EXCEPT ![w] = [Logs |-> FetchedLogs(wtask[w][1], wtask[w][2]),
                                    FromBlock |-> wtask[w][1],
                                    ToBlock |-> wtask[w][2],
                                    Err |-> FALSE, WorkerID |-> w]]
    /\ wpc' = [wpc EXCEPT ![w] = "send"]
    /\ UNCHANGED <<mevVars, sbVars, impl, badFrom, config, cancelled, pc, ret, chans, wtask, ppc,
                   currentBlock, cpc, collectVars, hist>>

\* FilterLogs returned an error: query.go:99-102 sleeps and retries,
\* part_006:87-102 reports the error in its QueryResult
WorkerFetchFail(w) ==
    /\ wpc[w] \in {"infetch", "doomed"}
    /\ IF impl = "retry"
         THEN /\ wpc' = [wpc EXCEPT ![w] = "sleep"]
              /\ UNCHANGED wres
         ELSE /\ wpc' = [wpc EXCEPT ![w] = "send"]
              /\ wres' = [wres EXCEPT ![w] = [Logs |-> <<>>,
                                              FromBlock |-> wtask[w][1],
                                              ToBlock |-> wtask[w][2],
                                              Err |-> TRUE, WorkerID |-> w]]
    /\ failed' = IF impl = "retry" THEN failed
                 ELSE failed \cup {[FromBlock |-> wtask[w][1],
                                    ToBlock |-> wtask[w][2], WorkerID |-> w]}
    /\ UNCHANGED <<mevVars, sbVars, impl, badFrom, config, cancelled, pc, ret, chans, wtask, ppc,
                   currentBlock, cpc, collectVars, enqueued, fetches,
                   lateFetch, received>>

\* time.Sleep(1 * time.Second); continue: the same FilterLogs call again
WorkerRetryNextTask(w) ==
    /\ wpc[w] = "sleep"
    /\ wpc' = [wpc EXCEPT ![w] = "recv"]
    /\ wtask' = [wtask EXCEPT ![w] = <<Nil, Nil>>]
    /\ UNCHANGED <<mevVars, sbVars, impl, badFrom, config, cancelled, pc, ret, chans, wres, ppc,
                   currentBlock, cpc, collectVars, hist>>

WorkerRetry(w) ==
    /\ wpc[w] = "sleep"
    /\ wpc' = [wpc EXCEPT ![w] = IF cancelled THEN "doomed" ELSE "infetch"]
    /\ lateFetch' = (lateFetch \/ cancelled)
    /\ fetches' = fetches \cup {wtask[w]}
    /\ UNCHANGED <<mevVars, sbVars, impl, badFrom, config, cancelled, pc, ret, chans, wtask, wres, ppc,
                   currentBlock, cpc, collectVars, enqueued, received, failed>>

\* resultChan <- QueryResult{...}
WorkerSend(w) ==
    /\ wpc[w] = "send"
    /\ Len(resultChan) < ChanCap(config)
    /\ resultChan' = Append(resultChan, wres[w])
    /\ wpc' = [wpc EXCEPT ![w] = "recv"]
    /\ wres' = [wres EXCEPT ![w] = NoResult]
    /\ wtask' = [wtask EXCEPT ![w] = <<Nil, Nil>>]
    /\ UNCHANGED <<mevVars, sbVars, impl, badFrom, config, cancelled, pc, ret, workChan, workClosed,
                   resultClosed, ppc, currentBlock, cpc, collectVars, hist>>

WorkerStep(w) ==
    \/ WorkerRecv(w) \/ WorkerExit(w) \/ WorkerFetchOK(w)
    \/ WorkerFetchFail(w) \/ WorkerRetry(w) \/ WorkerSend(w)

\* ----------------------------------------------------------- the producer

\* select: case workChan <- [currentBlock, chunkEnd]
ProducerSend ==
    /\ ppc = "loop"
    /\ ProducerMore(config, currentBlock)
    /\ Len(workChan) < ChanCap(config)
    /\ LET chunkEnd == ChunkEnd(config, currentBlock) IN
         /\ workChan' = Append(workChan, <<currentBlock, chunkEnd>>)
         /\ enqueued' = Append(enqueued, <<currentBlock, chunkEnd>>)
         /\ currentBlock' = chunkEnd + 1
    /\ UNCHANGED <<mevVars, sbVars, impl, badFrom, config, cancelled, pc, ret, workClosed, resultChan,
                   resultClosed, workerVars, ppc, cpc, collectVars, fetches,
                   lateFetch, received, failed, badFrom, chain, sbcfg, sbpc, sbret,
          todo, curBlk, vpc, vstep, bundleChan, bundleClosed, vcl, bundles,
          rcptFetches, blockFetches, midCancel, lostBlocks, lostCands>>

\* select: case <-ctx.Done(): return, then the deferred close(workChan)
ProducerCancelled ==
    /\ ppc = "loop"
    /\ ProducerMore(config, currentBlock)
    /\ cancelled
    /\ ppc' = "done"
    /\ workClosed' = TRUE
    /\ UNCHANGED <<mevVars, sbVars, impl, badFrom, config, cancelled, pc, ret, workChan, resultChan,
                   resultClosed, workerVars, currentBlock, cpc, collectVars,
                   hist>>

\* loop condition false: the deferred close(workChan)
ProducerFinishNoClose ==
    /\ ppc = "loop"
    /\ ~ProducerMore(config, currentBlock)
    /\ ppc' = "done"
    /\ UNCHANGED <<mevVars, sbVars, impl, badFrom, config, cancelled, pc, ret, chans, workerVars,
                   currentBlock, cpc, collectVars, hist>>

ProducerFinish ==
    /\ ppc = "loop"
    /\ ~ProducerMore(config, currentBlock)
    /\ ppc' = "done"
    /\ workClosed' = TRUE
    /\ UNCHANGED <<mevVars, sbVars, impl, badFrom, config, cancelled, pc, ret, workChan, resultChan,
                   resultClosed, workerVars, currentBlock, cpc, collectVars,
                   hist>>

\* ------------------------------------------- wg.Wait(); close(resultChan)

CloserClose ==
    /\ cpc = "wait"
    /\ WgZero(wpc, EffMaxWorkers(config))
    /\ cpc' = "done"
    /\ resultClosed' = TRUE
    /\ UNCHANGED <<mevVars, sbVars, impl, badFrom, config, cancelled, pc, ret, workChan, workClosed,
                   resultChan, workerVars, ppc, currentBlock, collectVars,
                   hist>>

\* ------------------------------------------------------------------ Next

Next ==
    \/ Cancel
    \/ EnterInvalid
    \/ EnterSingle
    \/ SingleOK
    \/ SingleFail
    \/ EnterPool
    \/ CollectRecv
    \/ CollectDone
    \/ \E w \in Workers : WorkerRecv(w)
    \/ \E w \in Workers : WorkerExit(w)
    \/ \E w \in Workers : WorkerFetchOK(w)
    \/ \E w \in Workers : WorkerFetchFail(w)
    \/ \E w \in Workers : WorkerRetry(w)
    \/ \E w \in Workers : WorkerSend(w)
    \/ ProducerSend
    \/ ProducerCancelled
    \/ ProducerFinish
    \/ CloserClose

Spec == Init /\ [][Next]_vars


\* every goroutine that can take a step eventually takes one; the caller is
\* free never to cancel
FairSpec ==
    /\ Init /\ [][Next]_vars
    /\ WF_vars(EnterInvalid \/ EnterSingle \/ SingleOK \/ SingleFail \/ EnterPool)
    /\ WF_vars(CollectRecv \/ CollectDone)
    /\ \A w \in 1..MaxW : WF_vars(WorkerStep(w))
    /\ WF_vars(ProducerSend \/ ProducerCancelled \/ ProducerFinish)
    /\ WF_vars(CloserClose)

\* ---------------------------------------------------------------------
\* Calls on an endpoint where no chunk fails forever: chunks of one block,
\* 2..MaxLiveTo of them, through channels of capacity 2 and 4; the caller
\* is free never to cancel.

MaxLiveTo == 3

InitLive ==
    /\ impl \in Impls
    /\ config \in [FromBlock : {0}, ToBlock : 2..MaxLiveTo,
                   MaxWorkers : 1..MaxW, ChunkSize : {1}]
    /\ cancelled = FALSE
    /\ pc = "entry"
    /\ ret = [logs |-> <<>>, err |-> "pending"]
    /\ workChan = <<>> /\ workClosed = FALSE
    /\ resultChan = <<>> /\ resultClosed = FALSE
    /\ wpc = [w \in AllWorkerIds |-> "none"]
    /\ wtask = [w \in AllWorkerIds |-> <<Nil, Nil>>]
    /\ wres = [w \in AllWorkerIds |-> NoResult]
    /\ ppc = "none" /\ currentBlock = Nil
    /\ cpc = "none"
    /\ allLogs = <<>> /\ errors = <<>>
    /\ totalChunks = 0 /\ successfulChunks = 0
    /\ enqueued = <<>> /\ fetches = {} /\ lateFetch = FALSE
    /\ received = <<>>
    /\ failed = {}
    /\ badFrom = Nil
    /\ SBIdle
    /\ MevIdle

NextLive ==
    \/ Cancel
    \/ EnterPool
    \/ CollectRecv
    \/ CollectDone
    \/ \E w \in Workers : WorkerRecv(w)
    \/ \E w \in Workers : WorkerExit(w)
    \/ \E w \in Workers : WorkerFetchOK(w)
    \/ \E w \in Workers : WorkerFetchFail(w)
    \/ \E w \in Workers : WorkerRetry(w)
    \/ \E w \in Workers : WorkerSend(w)
    \/ ProducerSend
    \/ ProducerCancelled
    \/ ProducerFinish
    \/ CloserClose

\* every goroutine that can take a step eventually takes one, and a fetch
\* that is attempted again and again eventually succeeds
LiveSpec ==
    /\ InitLive /\ [][NextLive]_vars
    /\ WF_vars(EnterPool)
    /\ WF_vars(CollectRecv \/ CollectDone)
    /\ \A w \in 1..MaxW : WF_vars(WorkerStep(w))
    /\ \A w \in 1..MaxW : SF_vars(WorkerFetchOK(w))
    /\ WF_vars(ProducerSend \/ ProducerCancelled \/ ProducerFinish)
    /\ WF_vars(CloserClose)

\* ---------------------------------------------------------------------
\* The range query [100, 100050] in chunks of 10000, with 1 and with 2
\* workers, and a query of three chunks with the default chunk size and the
\* default number of workers; every fetch succeeds and the caller does not
\* cancel.

InitEx ==
    /\ impl = "retry"
    /\ config \in {[FromBlock |-> 100, ToBlock |-> 100050, MaxWorkers |-> 1,
                    ChunkSize |-> 10000],
                   [FromBlock |-> 100, ToBlock |-> 100050, MaxWorkers |-> 2,
                    ChunkSize |-> 10000],
                   [FromBlock |-> 100, ToBlock |-> 20150, MaxWorkers |-> 0,
                    ChunkSize |-> 0]}
    /\ cancelled = FALSE
    /\ pc = "entry"
    /\ ret = [logs |-> <<>>, err |-> "pending"]
    /\ workChan = <<>> /\ workClosed = FALSE
    /\ resultChan = <<>> /\ resultClosed = FALSE
    /\ wpc = [w \in AllWorkerIds |-> "none"]
    /\ wtask = [w \in AllWorkerIds |-> <<Nil, Nil>>]
    /\ wres = [w \in AllWorkerIds |-> NoResult]
    /\ ppc = "none" /\ currentBlock = Nil
    /\ cpc = "none"
    /\ allLogs = <<>> /\ errors = <<>>
    /\ totalChunks = 0 /\ successfulChunks = 0
    /\ enqueued = <<>> /\ fetches = {} /\ lateFetch = FALSE
    /\ received = <<>>
    /\ failed = {}
    /\ badFrom = Nil
    /\ SBIdle
    /\ MevIdle

NextEx ==
    \/ EnterPool
    \/ CollectRecv
    \/ CollectDone
    \/ \E w \in Workers : WorkerRecv(w)
    \/ \E w \in Workers : WorkerExit(w)
    \/ \E w \in Workers : WorkerFetchOK(w)
    \/ \E w \in Workers : WorkerSend(w)
    \/ ProducerSend
    \/ ProducerFinish
    \/ CloserClose

SpecEx == InitEx /\ [][NextEx]_vars

\* ---------------------------------------------------------------------
\* mevshare.PaginatedFilterLogs (src/mevshare/history.go): the same worker
\* pool with a fixed chunk size, channels of capacity MaxWorkers, one fetch
\* attempt per chunk, a producer that does not watch ctx, no validation, and
\* a collector that returns at the first failed result.  impl = "filterlogs".

MaxBlockRange == 10000

\* the largest range is MaxFLSpan full chunks and one block more, and
\* MaxFLLong full chunks and one block more for a query with one worker
MaxFLSpan == 2
MaxFLLong == 4

\* blocks of the mock ledger that carry a log: the first two and the last
\* block of every MaxBlockRange-aligned span
FLLogBlocks ==
    {k * MaxBlockRange + d : k \in 0..(MaxFLSpan + MaxFLLong), d \in {0, 1, MaxBlockRange - 1}}

RECURSIVE SortedSeq(_)
SortedSeq(S) ==
    IF S = {} THEN <<>>
    ELSE LET m == CHOOSE x \in S : \A y \in S : x <= y
         IN <<m>> \o SortedSeq(S \ {m})

\* client.FilterLogs on success: the ledger's logs of blocks a..b in order
FLFilterLogs(a, b) == SortedSeq({x \in FLLogBlocks : a <= x /\ x <= b})

\* blockRange.Cmp(big.NewInt(MaxBlockRange)) <= 0
FLSingleQueryPath(c) == c.ToBlock - c.FromBlock <= MaxBlockRange

\* chunkEnd := currentBlock + MaxBlockRange - 1, clipped to ToBlock
FLChunkEnd(c, cur) == Min(cur + MaxBlockRange - 1, c.ToBlock)

\* make(chan ..., query.MaxWorkers)
FLChanCap(c) == EffMaxWorkers(c)

InitFL ==
    /\ impl = "filterlogs"
    /\ \E f \in 0..MaxFrom, k \in 0..MaxFLLong, d \in 0..1, n \in 1..MaxW :
          /\ (k <= MaxFLSpan \/ n = 1)
          /\ config = [FromBlock |-> f, ToBlock |-> f + k * MaxBlockRange + d,
                       MaxWorkers |-> n, ChunkSize |-> 0]
    /\ cancelled = FALSE
    /\ pc = "entry"
    /\ ret = [logs |-> <<>>, err |-> "pending"]
    /\ workChan = <<>> /\ workClosed = FALSE
    /\ resultChan = <<>> /\ resultClosed = FALSE
    /\ wpc = [w \in AllWorkerIds |-> "none"]
    /\ wtask = [w \in AllWorkerIds |-> <<Nil, Nil>>]
    /\ wres = [w \in AllWorkerIds |-> NoResult]
    /\ ppc = "none" /\ currentBlock = Nil
    /\ cpc = "none"
    /\ allLogs = <<>> /\ errors = <<>>
    /\ totalChunks = 0 /\ successfulChunks = 0
    /\ enqueued = <<>> /\ fetches = {} /\ lateFetch = FALSE
    /\ received = <<>>
    /\ failed = {}
    /\ badFrom \in {Nil} \cup {k * MaxBlockRange : k \in 0..MaxBad}
    /\ SBIdle
    /\ MevIdle

\* range within the limit: return client.FilterLogs(...)
FLEnterSingle ==
    /\ impl = "filterlogs"
    /\ pc = "entry"
    /\ FLSingleQueryPath(config)
    /\ pc' = IF cancelled THEN "singleDoomed" ELSE "single"
    /\ fetches' = fetches \cup {<<config.FromBlock, config.ToBlock>>}
    /\ UNCHANGED <<mevVars, sbVars, impl, badFrom, config, cancelled, ret, chans, workerVars,
                   ppc, currentBlock, cpc, collectVars, enqueued, lateFetch,
                   received, failed>>

FLSingleOK ==
    /\ impl = "filterlogs"
    /\ pc = "single"
    /\ config.FromBlock # badFrom
    /\ pc' = "returned"
    /\ ret' = [logs |-> FLFilterLogs(config.FromBlock, config.ToBlock), err |-> "nil"]
    /\ UNCHANGED <<mevVars, sbVars, impl, badFrom, config, cancelled, chans, workerVars, ppc,
                   currentBlock, cpc, collectVars, hist>>

FLSingleFail ==
    /\ impl = "filterlogs"
    /\ pc \in {"single", "singleDoomed"}
    /\ pc' = "returned"
    /\ ret' = [logs |-> <<>>, err |-> "single"]
    /\ UNCHANGED <<mevVars, sbVars, impl, badFrom, config, cancelled, chans, workerVars, ppc,
                   currentBlock, cpc, collectVars, hist>>

\* make the channels, start the workers, the producer and the closer
FLEnterPool ==
    /\ impl = "filterlogs"
    /\ pc = "entry"
    /\ ~FLSingleQueryPath(config)
    /\ pc' = "collect"
    /\ wpc' = [w \in AllWorkerIds |-> IF w \in Workers THEN "recv" ELSE "none"]
    /\ ppc' = "loop"
    /\ currentBlock' = config.FromBlock
    /\ cpc' = "wait"
    /\ UNCHANGED <<mevVars, sbVars, impl, badFrom, config, cancelled, ret, chans, wtask, wres,
                   collectVars, hist>>

\* for work := range workChan: the work item and its FilterLogs call
FLWorkerRecv(w) ==
    /\ impl = "filterlogs"
    /\ wpc[w] = "recv"
    /\ workChan # <<>>
    /\ wtask' = [wtask EXCEPT ![w] = Head(workChan)]
    /\ workChan' = Tail(workChan)
    /\ wpc' = [wpc EXCEPT ![w] = IF cancelled THEN "doomed" ELSE "infetch"]
    /\ fetches' = fetches \cup {Head(workChan)}
    /\ lateFetch' = (lateFetch \/ cancelled)
    /\ UNCHANGED <<mevVars, sbVars, impl, badFrom, config, cancelled, pc, ret, workClosed,
                   resultChan, resultClosed, wres, ppc, currentBlock, cpc,
                   collectVars, enqueued, received, failed>>

FLWorkerExit(w) ==
    /\ impl = "filterlogs"
    /\ wpc[w] = "recv"
    /\ RangeEnds(workChan, workClosed)
    /\ wpc' = [wpc EXCEPT ![w] = "done"]
    /\ UNCHANGED <<mevVars, sbVars, impl, badFrom, config, cancelled, pc, ret, chans, wtask,
                   wres, ppc, currentBlock, cpc, collectVars, hist>>

\* FilterLogsResult{Logs: logs, Err: nil}
FLWorkerFetchOK(w) ==
    /\ impl = "filterlogs"
    /\ wpc[w] = "infetch"
    /\ wtask[w][1] # badFrom
    /\ wres' = [wres EXCEPT ![w] = [Logs |-> FLFilterLogs(wtask[w][1], wtask[w][2]),
                                    FromBlock |-> Nil, ToBlock |-> Nil,
                                    Err |-> FALSE, WorkerID |-> 0]]
    /\ wpc' = [wpc EXCEPT ![w] = "send"]
    /\ UNCHANGED <<mevVars, sbVars, impl, badFrom, config, cancelled, pc, ret, chans, wtask,
                   ppc, currentBlock, cpc, collectVars, hist>>

\* FilterLogsResult{Logs: nil, Err: err}: neither range nor worker in it
FLWorkerFetchFail(w) ==
    /\ impl = "filterlogs"
    /\ wpc[w] \in {"infetch", "doomed"}
    /\ wres' = [wres EXCEPT ![w] = [Logs |-> <<>>, FromBlock |-> Nil,
                                    ToBlock |-> Nil, Err |-> TRUE,
                                    WorkerID |-> 0]]
    /\ wpc' = [wpc EXCEPT ![w] = "send"]
    /\ failed' = failed \cup {[FromBlock |-> wtask[w][1],
                               ToBlock |-> wtask[w][2], WorkerID |-> w]}
    /\ UNCHANGED <<mevVars, sbVars, impl, badFrom, config, cancelled, pc, ret, chans, wtask,
                   ppc, currentBlock, cpc, collectVars, enqueued, fetches,
                   lateFetch, received>>

\* resultChan <- FilterLogsResult{...}: blocks while the channel is full
FLWorkerSend(w) ==
    /\ impl = "filterlogs"
    /\ wpc[w] = "send"
    /\ Len(resultChan) < FLChanCap(config)
    /\ resultChan' = Append(resultChan, wres[w])
    /\ wpc' = [wpc EXCEPT ![w] = "recv"]
    /\ wres' = [wres EXCEPT ![w] = NoResult]
    /\ wtask' = [wtask EXCEPT ![w] = <<Nil, Nil>>]
    /\ UNCHANGED <<mevVars, sbVars, impl, badFrom, config, cancelled, pc, ret, workChan,
                   workClosed, resultClosed, ppc, currentBlock, cpc,
                   collectVars, hist>>

FLWorkerStep(w) ==
    \/ FLWorkerRecv(w) \/ FLWorkerExit(w) \/ FLWorkerFetchOK(w)
    \/ FLWorkerFetchFail(w) \/ FLWorkerSend(w)

\* workChan <- [currentBlock, chunkEnd]: a plain blocking send
FLProducerSend ==
    /\ impl = "filterlogs"
    /\ ppc = "loop"
    /\ ProducerMore(config, currentBlock)
    /\ Len(workChan) < FLChanCap(config)
    /\ LET chunkEnd == FLChunkEnd(config, currentBlock) IN
         /\ workChan' = Append(workChan, <<currentBlock, chunkEnd>>)
         /\ enqueued' = Append(enqueued, <<currentBlock, chunkEnd>>)
         /\ currentBlock' = chunkEnd + 1
    /\ UNCHANGED <<mevVars, sbVars, impl, badFrom, config, cancelled, pc, ret, workClosed,
                   resultChan, resultClosed, workerVars, ppc, cpc,
                   collectVars, fetches, lateFetch, received, failed>>

FLProducerFinish ==
    /\ impl = "filterlogs"
    /\ ppc = "loop"
    /\ ~ProducerMore(config, currentBlock)
    /\ ppc' = "done"
    /\ workClosed' = TRUE
    /\ UNCHANGED <<mevVars, sbVars, impl, badFrom, config, cancelled, pc, ret, workChan,
                   resultChan, resultClosed, workerVars, currentBlock, cpc,
                   collectVars, hist>>

FLCloserClose ==
    /\ impl = "filterlogs"
    /\ cpc = "wait"
    /\ WgZero(wpc, EffMaxWorkers(config))
    /\ cpc' = "done"
    /\ resultClosed' = TRUE
    /\ UNCHANGED <<mevVars, sbVars, impl, badFrom, config, cancelled, pc, ret, workChan,
                   workClosed, resultChan, workerVars, ppc, currentBlock,
                   collectVars, hist>>

\* for result := range resultChan: a failed result returns at once
FLCollectRecv ==
    /\ impl = "filterlogs"
    /\ pc = "collect"
    /\ resultChan # <<>>
    /\ LET result == Head(resultChan) IN
         /\ resultChan' = Tail(resultChan)
         /\ IF result.Err
              THEN /\ pc' = "returned"
                   /\ ret' = [logs |-> <<>>, err |-> "chunk"]
                   /\ UNCHANGED allLogs
              ELSE /\ allLogs' = MergeLogs(allLogs, result.Logs)
                   /\ UNCHANGED <<pc, ret>>
    /\ UNCHANGED <<mevVars, sbVars, impl, badFrom, config, cancelled, workChan, workClosed,
                   resultClosed, workerVars, ppc, currentBlock, cpc, errors,
                   totalChunks, successfulChunks, hist>>

\* return allLogs, nil
FLCollectDone ==
    /\ impl = "filterlogs"
    /\ pc = "collect"
    /\ RangeEnds(resultChan, resultClosed)
    /\ pc' = "returned"
    /\ ret' = [logs |-> allLogs, err |-> "nil"]
    /\ UNCHANGED <<mevVars, sbVars, impl, badFrom, config, cancelled, chans, workerVars, ppc,
                   currentBlock, cpc, collectVars, hist>>

\* the caller may cancel also after the function returned early, while its
\* goroutines are still running
FLCancel ==
    /\ impl = "filterlogs"
    /\ ~cancelled
    /\ cancelled' = TRUE
    /\ UNCHANGED <<mevVars, sbVars, impl, badFrom, config, pc, ret, chans, workerVars, ppc,
                   currentBlock, cpc, collectVars, hist>>

NextFL ==
    \/ FLCancel
    \/ FLEnterSingle
    \/ FLSingleOK
    \/ FLSingleFail
    \/ FLEnterPool
    \/ FLCollectRecv
    \/ FLCollectDone
    \/ \E w \in Workers : FLWorkerRecv(w)
    \/ \E w \in Workers : FLWorkerExit(w)
    \/ \E w \in Workers : FLWorkerFetchOK(w)
    \/ \E w \in Workers : FLWorkerFetchFail(w)
    \/ \E w \in Workers : FLWorkerSend(w)
    \/ FLProducerSend
    \/ FLProducerFinish
    \/ FLCloserClose

SpecFL == InitFL /\ [][NextFL]_vars

\* every goroutine of PaginatedFilterLogs that can take a step eventually
\* takes one; the caller is free never to cancel
FairSpecFL ==
    /\ InitFL /\ [][NextFL]_vars
    /\ WF_vars(FLEnterSingle \/ FLSingleOK \/ FLSingleFail \/ FLEnterPool)
    /\ WF_vars(FLCollectRecv \/ FLCollectDone)
    /\ \A w \in 1..MaxW : WF_vars(FLWorkerStep(w))
    /\ WF_vars(FLProducerSend \/ FLProducerFinish)
    /\ WF_vars(FLCloserClose)

\* ---------------------------------------------------------------------
\* query.SearchBundle and findBundleInBlock (src/query/query.go).  Step 1 is
\* a call of PaginatedQuery, modelled by the actions above running on the
\* QueryConfig that SearchBundle builds; then the blocks of blockTxMap are
\* visited one after the other (in map order, which is arbitrary) and every
\* start index of a block is verified by its own goroutine.

MaxSBEnd == 2
MaxSBChunk == 1
MaxSBW == 1

SBDefaultMaxWorkers == 3
SBDefaultChunkSize == 1000

Lg(a, t) == [Address |-> a, Topic0 |-> t]

\* block shapes of the mock ledgers: a transaction is its receipt's logs
BlkFive == << <<>>, <<>>, <<Lg("X", "A")>>, <<Lg("Y", "B")>>, <<>> >>
BlkFiveNoB == << <<>>, <<>>, <<Lg("X", "A")>>, <<Lg("Y", "C")>>, <<>> >>
BlkPairX == << <<Lg("X", "A")>>, <<Lg("X", "B")>> >>
BlkPairY == << <<Lg("Y", "A")>>, <<Lg("Y", "B")>> >>
BlkTriple == << <<Lg("X", "A")>>, <<Lg("X", "A")>>, <<Lg("Y", "A")>> >>
BlkMulti == << <<Lg("X", "A"), Lg("Y", "A")>>, <<Lg("Y", "C"), Lg("X", "B")>> >>
BlkLone == << <<Lg("X", "A")>> >>
BlkTwice == << <<Lg("X", "A"), Lg("X", "A")>>, <<Lg("X", "B"), Lg("X", "A")>> >>

Chains ==
    { <<BlkFive, BlkPairX, BlkPairY>>,
      <<BlkFiveNoB, BlkTriple, BlkLone>>,
      <<BlkMulti, <<>>, BlkPairX>>,
      <<BlkTwice, BlkTwice, BlkLone>> }

SBConfigs ==
    [EventSignatures : {<<>>, <<"A">>, <<"A", "B">>, <<"A", "A">>},
     Addresses : {<<>>, <<"zero">>, <<"X">>, <<"X", "Y">>, <<"X", "zero">>,
                  <<"zero", "zero">>, <<"X", "X">>},
     StartBlock : {Nil} \cup 0..1,
     EndBlock : {Nil} \cup 0..MaxSBEnd,
     MaxWorkers : 1..MaxSBW,
     ChunkSize : 0..MaxSBChunk]

\* the four validation returns of SearchBundle
SBInvalidNoLenCheck(c) ==
    \/ Len(c.EventSignatures) = 0
    \/ c.StartBlock = Nil \/ c.EndBlock = Nil
    \/ c.StartBlock > c.EndBlock

SBInvalid(c) ==
    \/ Len(c.EventSignatures) = 0
    \/ c.StartBlock = Nil \/ c.EndBlock = Nil
    \/ c.StartBlock > c.EndBlock
    \/ (Len(c.Addresses) > 0 /\ Len(c.Addresses) # Len(c.EventSignatures))

\* queryConfig := QueryConfig{...} with SearchBundle's defaults applied
SBQueryConfig(c) ==
    [FromBlock |-> c.StartBlock, ToBlock |-> c.EndBlock,
     MaxWorkers |-> IF c.MaxWorkers <= 0 THEN SBDefaultMaxWorkers ELSE c.MaxWorkers,
     ChunkSize |-> IF c.ChunkSize <= 0 THEN SBDefaultChunkSize ELSE c.ChunkSize]

\* block.Transactions() of block b
BlockTxs(b) == IF b + 1 <= Len(chain) THEN chain[b + 1] ELSE <<>>

\* keys of blockTxMap and of blockTxMap[b], from PaginatedQuery's logs
LogBlocks(logs) == {logs[k].BlockNumber : k \in DOMAIN logs}

TxMap(logs, b) == {logs[k].TxIndex : k \in {j \in DOMAIN logs : logs[j].BlockNumber = b}}

\* startIndices: the transactions of txMap found in the block
StartIndicesNoOverlap(logs, b) ==
    {t \in TxMap(logs, b) :
        /\ t + 1 <= Len(BlockTxs(b))
        /\ ~\E u \in TxMap(logs, b) : u < t /\ t - u < Len(sbcfg.EventSignatures)}

StartIndices(logs, b) == {t \in TxMap(logs, b) : t + 1 <= Len(BlockTxs(b))}

\* if len(transactions)-startIndex < len(signatures) { return nil }
TooFewTxsNever(n, start, m) == FALSE

TooFewTxsOffByOne(n, start, m) == n - start <= m

TooFewTxs(n, start, m) == n - start < m

\* txIndex := startIndex + i
StepTxIndexStuck(start, i) == start

StepTxIndex(start, i) == start + i

\* the receipt has a log for step i (0-based): topic 0 is signatures[i] and,
\* if an address is given for the step and is not the zero address, the
\* emitter is that address
StepMatchesNoWildcard(logs, i, sigs, addrs) ==
    \E k \in DOMAIN logs :
        /\ logs[k].Topic0 = sigs[i + 1]
        /\ IF Len(addrs) > i THEN logs[k].Address = addrs[i + 1] ELSE TRUE

StepMatches(logs, i, sigs, addrs) ==
    \E k \in DOMAIN logs :
        /\ logs[k].Topic0 = sigs[i + 1]
        /\ IF Len(addrs) > i
             THEN addrs[i + 1] = "zero" \/ logs[k].Address = addrs[i + 1]
             ELSE TRUE

\* fmt.Printf("Failed to get block ..."); continue: the other keys of
\* blockTxMap are still visited
AfterBlockErrorBreak(td) == {}

AfterBlockError(td) == td

\* bundleTxs of a verified candidate: the transactions start .. start+len-1
BundleOf(b, start, n) == [Block |-> b, Txs |-> [k \in 1..n |-> StepTxIndex(start, k - 1)]]

pqVars == <<impl, badFrom, config, cancelled, pc, ret, chans, workerVars, ppc,
            currentBlock, cpc, collectVars, hist>>

pqNoCancel == <<impl, badFrom, config, pc, ret, chans, workerVars, ppc,
                currentBlock, cpc, collectVars, hist>>

InitSB ==
    /\ impl = "retry"
    /\ config = [FromBlock |-> Nil, ToBlock |-> Nil, MaxWorkers |-> 1, ChunkSize |-> 0]
    /\ cancelled = FALSE
    /\ pc = "idle"
    /\ ret = [logs |-> <<>>, err |-> "pending"]
    /\ workChan = <<>> /\ workClosed = FALSE
    /\ resultChan = <<>> /\ resultClosed = FALSE
    /\ wpc = [w \in AllWorkerIds |-> "none"]
    /\ wtask = [w \in AllWorkerIds |-> <<Nil, Nil>>]
    /\ wres = [w \in AllWorkerIds |-> NoResult]
    /\ ppc = "none" /\ currentBlock = Nil
    /\ cpc = "none"
    /\ allLogs = <<>> /\ errors = <<>>
    /\ totalChunks = 0 /\ successfulChunks = 0
    /\ enqueued = <<>> /\ fetches = {} /\ lateFetch = FALSE
    /\ received = <<>>
    /\ failed = {}
    /\ badFrom = Nil
    /\ chain \in Chains
    /\ sbcfg \in SBConfigs
    /\ sbpc = "entry"
    /\ sbret = [bundles |-> <<>>, err |-> "pending"]
    /\ todo = {} /\ curBlk = Nil
    /\ vpc = [i \in TxIdx |-> "none"]
    /\ vstep = [i \in TxIdx |-> 0]
    /\ bundleChan = <<>> /\ bundleClosed = FALSE
    /\ vcl = "none"
    /\ bundles = <<>>
    /\ rcptFetches = {} /\ blockFetches = {}
    /\ midCancel = FALSE
    /\ lostBlocks = {} /\ lostCands = {}
    /\ MevIdle

\* one of the validation returns
SBEnterInvalid ==
    /\ sbpc = "entry"
    /\ SBInvalid(sbcfg)
    /\ sbpc' = "returned"
    /\ sbret' = [bundles |-> <<>>, err |-> "validation"]
    /\ UNCHANGED <<mevVars, pqVars, chain, sbcfg, todo, curBlk, vpc, vstep, bundleChan,
                   bundleClosed, vcl, bundles, rcptFetches, blockFetches,
                   midCancel,
                   lostBlocks, lostCands>>

\* Addresses: []common.Address{config.Addresses[0]} with an empty Addresses:
\* index out of range, the goroutine panics
SBEnterPanic ==
    /\ sbpc = "entry"
    /\ ~SBInvalid(sbcfg)
    /\ Len(sbcfg.Addresses) = 0
    /\ sbpc' = "panicked"
    /\ UNCHANGED <<mevVars, pqVars, chain, sbcfg, sbret, todo, curBlk, vpc, vstep,
                   bundleChan, bundleClosed, vcl, bundles, rcptFetches,
                   blockFetches, midCancel,
                   lostBlocks, lostCands>>

\* allLogs, err := PaginatedQuery(ctx, client, queryConfig)
SBCallQuery ==
    /\ sbpc = "entry"
    /\ ~SBInvalid(sbcfg)
    /\ Len(sbcfg.Addresses) > 0
    /\ sbpc' = "step1"
    /\ config' = SBQueryConfig(sbcfg)
    /\ pc' = "entry"
    /\ UNCHANGED <<mevVars, impl, badFrom, cancelled, ret, chans, workerVars, ppc,
                   currentBlock, cpc, collectVars, hist, chain, sbcfg, sbret,
                   todo, curBlk, vpc, vstep, bundleChan, bundleClosed, vcl,
                   bundles, rcptFetches, blockFetches, midCancel,
                   lostBlocks, lostCands>>

\* if err != nil { return nil, fmt.Errorf("failed to query ...") }
SBQueryFailed ==
    /\ sbpc = "step1"
    /\ pc = "returned"
    /\ ret.err # "nil"
    /\ sbpc' = "returned"
    /\ sbret' = [bundles |-> <<>>, err |-> "step1"]
    /\ UNCHANGED <<mevVars, pqVars, chain, sbcfg, todo, curBlk, vpc, vstep, bundleChan,
                   bundleClosed, vcl, bundles, rcptFetches, blockFetches,
                   midCancel,
                   lostBlocks, lostCands>>

\* group the logs by block number and transaction hash
SBGroup ==
    /\ sbpc = "step1"
    /\ pc = "returned"
    /\ ret.err = "nil"
    /\ sbpc' = "blocks"
    /\ todo' = LogBlocks(ret.logs)
    /\ UNCHANGED <<mevVars, pqVars, chain, sbcfg, sbret, curBlk, vpc, vstep, bundleChan,
                   bundleClosed, vcl, bundles, rcptFetches, blockFetches,
                   midCancel,
                   lostBlocks, lostCands>>

\* next key of blockTxMap: block, err := client.BlockByNumber(ctx, blockNum)
SBFetchBlock ==
    /\ sbpc = "blocks"
    /\ \E b \in todo :
          /\ curBlk' = b
          /\ todo' = todo \ {b}
          /\ blockFetches' = blockFetches \cup {b}
    /\ sbpc' = IF cancelled THEN "blockDoomed" ELSE "block"
    /\ UNCHANGED <<mevVars, pqVars, chain, sbcfg, sbret, vpc, vstep, bundleChan,
                   bundleClosed, vcl, bundles, rcptFetches, midCancel,
                   lostBlocks, lostCands>>

\* Failed to get block: continue
SBBlockFail ==
    /\ sbpc \in {"block", "blockDoomed"}
    /\ sbpc' = "blocks"
    /\ todo' = AfterBlockError(todo)
    /\ lostBlocks' = lostBlocks \cup {curBlk}
    /\ UNCHANGED <<mevVars, pqVars, chain, sbcfg, sbret, curBlk, vpc, vstep,
                   bundleChan, bundleClosed, vcl, bundles, rcptFetches,
                   blockFetches, midCancel, lostCands>>

\* the block arrived: collect startIndices, start one goroutine per start
\* index and the goroutine that closes bundleChan
SBBlockOK ==
    /\ sbpc = "block"
    /\ LET starts == StartIndices(ret.logs, curBlk) IN
         IF starts = {}
           THEN /\ sbpc' = "blocks"
                /\ UNCHANGED <<vpc, vstep, bundleChan, bundleClosed, vcl>>
           ELSE /\ sbpc' = "collect"
                /\ vpc' = [i \in TxIdx |-> IF i \in starts THEN "start" ELSE "none"]
                /\ vstep' = [i \in TxIdx |-> 0]
                /\ bundleChan' = <<>>
                /\ bundleClosed' = FALSE
                /\ vcl' = "wait"
    /\ UNCHANGED <<mevVars, pqVars, chain, sbcfg, sbret, todo, curBlk, bundles,
                   rcptFetches, blockFetches, midCancel, lostBlocks, lostCands>>

\* findBundleInBlock up to its first TransactionReceipt call
VStart(idx) ==
    /\ vpc[idx] = "start"
    /\ IF TooFewTxs(Len(BlockTxs(curBlk)), idx, Len(sbcfg.EventSignatures))
         THEN /\ vpc' = [vpc EXCEPT ![idx] = "done"]
              /\ UNCHANGED rcptFetches
         ELSE /\ vpc' = [vpc EXCEPT ![idx] = IF cancelled THEN "rcptDoomed" ELSE "rcpt"]
              /\ rcptFetches' = rcptFetches \cup {<<curBlk, StepTxIndex(idx, 0)>>}
    /\ UNCHANGED <<mevVars, pqVars, chain, sbcfg, sbpc, sbret, todo, curBlk, vstep,
                   bundleChan, bundleClosed, vcl, bundles, blockFetches,
                   midCancel,
                   lostBlocks, lostCands>>

\* receipt fetch failed: return nil
VReceiptFail(idx) ==
    /\ vpc[idx] \in {"rcpt", "rcptDoomed"}
    /\ vpc' = [vpc EXCEPT ![idx] = "done"]
    /\ lostCands' = lostCands \cup {<<curBlk, idx>>}
    /\ UNCHANGED <<mevVars, pqVars, chain, sbcfg, sbpc, sbret, todo, curBlk, vstep,
                   bundleChan, bundleClosed, vcl, bundles, rcptFetches,
                   blockFetches, midCancel, lostBlocks>>

\* the receipt arrived: look for the step's log, then the next step's receipt
\* or the end of the loop
VReceiptOK(idx) ==
    /\ vpc[idx] = "rcpt"
    /\ LET i == vstep[idx]
           sigs == sbcfg.EventSignatures
           txs == BlockTxs(curBlk)
           receipt == txs[StepTxIndex(idx, i) + 1]
       IN IF ~StepMatches(receipt, i, sigs, sbcfg.Addresses)
            THEN /\ vpc' = [vpc EXCEPT ![idx] = "done"]
                 /\ UNCHANGED <<vstep, rcptFetches>>
          ELSE IF i + 1 = Len(sigs)
            THEN /\ vpc' = [vpc EXCEPT ![idx] = "send"]
                 /\ UNCHANGED <<vstep, rcptFetches>>
          ELSE IF StepTxIndex(idx, i + 1) >= Len(txs)
            THEN /\ vpc' = [vpc EXCEPT ![idx] = "done"]
                 /\ UNCHANGED <<vstep, rcptFetches>>
          ELSE /\ vstep' = [vstep EXCEPT ![idx] = i + 1]
               /\ vpc' = [vpc EXCEPT ![idx] = IF cancelled THEN "rcptDoomed" ELSE "rcpt"]
               /\ rcptFetches' = rcptFetches \cup {<<curBlk, StepTxIndex(idx, i + 1)>>}
    /\ UNCHANGED <<mevVars, pqVars, chain, sbcfg, sbpc, sbret, todo, curBlk, bundleChan,
                   bundleClosed, vcl, bundles, blockFetches, midCancel,
                   lostBlocks, lostCands>>

\* bundleChan <- bundleTxs (capacity len(startIndices)), deferred wg.Done()
VSendPerLog(idx) ==
    /\ vpc[idx] = "send"
    /\ LET n == Cardinality({k \in DOMAIN ret.logs :
                      ret.logs[k].BlockNumber = curBlk /\ ret.logs[k].TxIndex = idx})
       IN bundleChan' = bundleChan \o
              [k \in 1..n |-> BundleOf(curBlk, idx, Len(sbcfg.EventSignatures))]
    /\ vpc' = [vpc EXCEPT ![idx] = "done"]
    /\ UNCHANGED <<mevVars, pqVars, chain, sbcfg, sbpc, sbret, todo, curBlk, vstep,
                   bundleClosed, vcl, bundles, rcptFetches, blockFetches,
                   midCancel,
                   lostBlocks, lostCands>>

VSend(idx) ==
    /\ vpc[idx] = "send"
    /\ Len(bundleChan) < Cardinality(StartIndices(ret.logs, curBlk))
    /\ bundleChan' = Append(bundleChan, BundleOf(curBlk, idx, Len(sbcfg.EventSignatures)))
    /\ vpc' = [vpc EXCEPT ![idx] = "done"]
    /\ UNCHANGED <<mevVars, pqVars, chain, sbcfg, sbpc, sbret, todo, curBlk, vstep,
                   bundleClosed, vcl, bundles, rcptFetches, blockFetches,
                   midCancel,
                   lostBlocks, lostCands>>

VStep(idx) == VStart(idx) \/ VReceiptFail(idx) \/ VReceiptOK(idx) \/ VSend(idx)

\* wg.Wait(); close(bundleChan)
VCloserClose ==
    /\ vcl = "wait"
    /\ \A i \in TxIdx : vpc[i] \in {"none", "done"}
    /\ vcl' = "done"
    /\ bundleClosed' = TRUE
    /\ UNCHANGED <<mevVars, pqVars, chain, sbcfg, sbpc, sbret, todo, curBlk, vpc, vstep,
                   bundleChan, bundles, rcptFetches, blockFetches, midCancel,
                   lostBlocks, lostCands>>

\* for bundleTxs := range bundleChan { bundles = append(bundles, bundleTxs) }
SBCollectRecv ==
    /\ sbpc = "collect"
    /\ bundleChan # <<>>
    /\ bundles' = Append(bundles, Head(bundleChan))
    /\ bundleChan' = Tail(bundleChan)
    /\ UNCHANGED <<mevVars, pqVars, chain, sbcfg, sbpc, sbret, todo, curBlk, vpc, vstep,
                   bundleClosed, vcl, rcptFetches, blockFetches, midCancel,
                   lostBlocks, lostCands>>

\* bundleChan closed and drained: next block
SBCollectDoneEarly ==
    /\ sbpc = "collect"
    /\ bundleChan = <<>>
    /\ sbpc' = "blocks"
    /\ vpc' = [i \in TxIdx |-> "none"]
    /\ vstep' = [i \in TxIdx |-> 0]
    /\ vcl' = "none"
    /\ bundleClosed' = FALSE
    /\ UNCHANGED <<mevVars, pqVars, chain, sbcfg, sbret, todo, curBlk, bundleChan,
                   bundles, rcptFetches, blockFetches, midCancel,
                   lostBlocks, lostCands>>

SBCollectDone ==
    /\ sbpc = "collect"
    /\ RangeEnds(bundleChan, bundleClosed)
    /\ sbpc' = "blocks"
    /\ vpc' = [i \in TxIdx |-> "none"]
    /\ vstep' = [i \in TxIdx |-> 0]
    /\ vcl' = "none"
    /\ bundleClosed' = FALSE
    /\ UNCHANGED <<mevVars, pqVars, chain, sbcfg, sbret, todo, curBlk, bundleChan,
                   bundles, rcptFetches, blockFetches, midCancel,
                   lostBlocks, lostCands>>

\* return bundles, nil
SBReturn ==
    /\ sbpc = "blocks"
    /\ todo = {}
    /\ sbpc' = "returned"
    /\ sbret' = [bundles |-> bundles, err |-> "nil"]
    /\ UNCHANGED <<mevVars, pqVars, chain, sbcfg, todo, curBlk, vpc, vstep, bundleChan,
                   bundleClosed, vcl, bundles, rcptFetches, blockFetches,
                   midCancel,
                   lostBlocks, lostCands>>

\* blocks are still to be fetched or candidates are being verified
SBWorkLeft == sbpc \in {"block", "collect"} \/ (sbpc = "blocks" /\ todo # {})

\* ctx is cancelled by the caller after step 1 has returned
SBCancel ==
    /\ ~cancelled
    /\ pc = "returned"
    /\ sbpc \in {"step1", "blocks", "block", "collect"}
    /\ cancelled' = TRUE
    /\ midCancel' = SBWorkLeft
    /\ UNCHANGED <<mevVars, pqNoCancel, chain, sbcfg, sbpc, sbret, todo, curBlk, vpc,
                   vstep, bundleChan, bundleClosed, vcl, bundles, rcptFetches,
                   blockFetches,
                   lostBlocks, lostCands>>

NextSB ==
    \/ SBEnterInvalid
    \/ SBEnterPanic
    \/ SBCallQuery
    \/ SBQueryFailed
    \/ SBGroup
    \/ SBFetchBlock
    \/ SBBlockFail
    \/ SBBlockOK
    \/ \E idx \in TxIdx : VStart(idx)
    \/ \E idx \in TxIdx : VReceiptFail(idx)
    \/ \E idx \in TxIdx : VReceiptOK(idx)
    \/ \E idx \in TxIdx : VSend(idx)
    \/ VCloserClose
    \/ SBCollectRecv
    \/ SBCollectDone
    \/ SBReturn
    \/ SBCancel
    \/ Cancel
    \/ EnterSingle
    \/ SingleOK
    \/ SingleFail
    \/ EnterPool
    \/ CollectRecv
    \/ CollectDone
    \/ \E w \in Workers : WorkerRecv(w)
    \/ \E w \in Workers : WorkerExit(w)
    \/ \E w \in Workers : WorkerFetchOK(w)
    \/ \E w \in Workers : WorkerFetchFail(w)
    \/ \E w \in Workers : WorkerRetry(w)
    \/ \E w \in Workers : WorkerSend(w)
    \/ ProducerSend
    \/ ProducerCancelled
    \/ ProducerFinish
    \/ CloserClose

SpecSB == InitSB /\ [][NextSB]_vars

\* ---------------------------------------------------------------------
\* mevshare.Client.HistoryPaginated (src/mevshare/history.go): one goroutine
\* that asks the history endpoint for page after page.  The endpoint holds
\* hsrv entries for the request's filter, entry k being the k-th in its
\* order, and answers limit=l&offset=o with the entries o .. o+l-1 it has.

PageSize == 500

\* the endpoint holds up to MaxPages full pages and a partial one
MaxPages == 2
\* Limit and Offset a caller of HistoryWithPagination passes
MaxHLimit == 2
MaxHOffset == 1

\* c.History(ctx, pageReq) on success
ServerHistory(limit, off) ==
    LET last == Min(off + limit, hsrv)
    IN [i \in 1..(IF last > off THEN last - off ELSE 0) |-> off + i - 1]

\* pageReq := &HistoryRequest{..., Limit: &pageSize, Offset: &offset}: the
\* caller's Limit and Offset are not copied
PageReqOfCaller(req, off) ==
    [Limit |-> IF req.Limit = Nil THEN PageSize ELSE req.Limit,
     Offset |-> IF req.Offset = Nil THEN off ELSE req.Offset + off]

PageReq(req, off) == [Limit |-> PageSize, Offset |-> off]

hpVars == <<hreq, hsrv, hpc, offset, allHistory, hret, pageReqs>>
rsVars == <<rpc, eventChan, evCap, line, attempts, sinceFail,
             taken, lost>>

InitHP ==
    /\ impl = "retry"
    /\ config = [FromBlock |-> Nil, ToBlock |-> Nil, MaxWorkers |-> 1, ChunkSize |-> 0]
    /\ cancelled = FALSE
    /\ pc = "idle"
    /\ ret = [logs |-> <<>>, err |-> "pending"]
    /\ workChan = <<>> /\ workClosed = FALSE
    /\ resultChan = <<>> /\ resultClosed = FALSE
    /\ wpc = [w \in AllWorkerIds |-> "none"]
    /\ wtask = [w \in AllWorkerIds |-> <<Nil, Nil>>]
    /\ wres = [w \in AllWorkerIds |-> NoResult]
    /\ ppc = "none" /\ currentBlock = Nil
    /\ cpc = "none"
    /\ allLogs = <<>> /\ errors = <<>>
    /\ totalChunks = 0 /\ successfulChunks = 0
    /\ enqueued = <<>> /\ fetches = {} /\ lateFetch = FALSE
    /\ received = <<>>
    /\ failed = {}
    /\ badFrom = Nil
    /\ SBIdle
    /\ hreq \in {[Limit |-> Nil, Offset |-> Nil]}
                 \cup [Limit : 1..MaxHLimit, Offset : 0..MaxHOffset]
    /\ hsrv \in {k * PageSize + d : k \in 0..MaxPages, d \in {0, 1, PageSize - 1}}
    /\ hpc = "loop"
    /\ offset = 0
    /\ allHistory = <<>>
    /\ hret = [entries |-> <<>>, err |-> "pending"]
    /\ pageReqs = <<>>
    /\ rpc = "none"
    /\ eventChan = <<>> /\ evCap = 0
    /\ line = 0
    /\ attempts = 0
    /\ sinceFail = "none"
    /\ taken = 0 /\ lost = 0

\* top of the loop: pageHistory, err := c.History(ctx, pageReq)
HPRequest ==
    /\ hpc = "loop"
    /\ LET pageReq == PageReq(hreq, offset) IN
         pageReqs' = Append(pageReqs, <<pageReq.Limit, pageReq.Offset>>)
    /\ hpc' = IF cancelled THEN "pageDoomed" ELSE "page"
    /\ UNCHANGED <<pqVars, sbVars, rsVars, hreq, hsrv, offset, allHistory, hret>>

\* return nil, fmt.Errorf("failed to fetch page at offset %d: %v", ...);
\* a request on a cancelled context can only fail
HPPageFail ==
    /\ hpc \in {"page", "pageDoomed"}
    /\ hpc' = "returned"
    /\ hret' = [entries |-> <<>>, err |-> "page"]
    /\ UNCHANGED <<pqVars, sbVars, rsVars, hreq, hsrv, offset, allHistory, pageReqs>>

\* the page arrived: the rest of the loop body
HPPageOK ==
    /\ hpc = "page"
    /\ LET pageReq == PageReq(hreq, offset)
           pageHistory == ServerHistory(pageReq.Limit, pageReq.Offset)
       IN IF Len(pageHistory) = 0
            THEN /\ hpc' = "returned"
                 /\ hret' = [entries |-> allHistory, err |-> "nil"]
                 /\ UNCHANGED <<allHistory, offset>>
          ELSE IF Len(pageHistory) < PageSize
            THEN /\ allHistory' = allHistory \o pageHistory
                 /\ hpc' = "returned"
                 /\ hret' = [entries |-> allHistory', err |-> "nil"]
                 /\ UNCHANGED offset
          ELSE /\ allHistory' = allHistory \o pageHistory
               /\ offset' = offset + PageSize
               /\ IF cancelled
                    THEN /\ hpc' = "returned"
                         /\ hret' = [entries |-> <<>>, err |-> "cancelled"]
                    ELSE /\ hpc' = "loop"
                         /\ UNCHANGED hret
    /\ UNCHANGED <<pqVars, sbVars, rsVars, hreq, hsrv, pageReqs>>

\* ctx is cancelled by the caller while HistoryPaginated runs
HPCancel ==
    /\ ~cancelled
    /\ hpc \in {"loop", "page"}
    /\ cancelled' = TRUE
    /\ UNCHANGED <<pqNoCancel, sbVars, mevVars>>

NextHP ==
    \/ HPRequest
    \/ HPPageFail
    \/ HPPageOK
    \/ HPCancel

SpecHP == InitHP /\ [][NextHP]_vars

\* ---------------------------------------------------------------------
\* mevshare.StreamReader.ReadStreamWithRetry and ReadStream
\* (src/mevshare/stream.go): one goroutine that connects to the event
\* stream, scans it line by line, sends every event to eventChan and
\* reconnects when the stream ends.  The consumer of eventChan and the
\* server are the environment.

\* capacity of the caller's eventChan, lines of one response body, and
\* ReadStream calls of one behaviour
MaxEvCap == 2
MaxLines == 2
MaxAttempts == 2

InitRS ==
    /\ impl = "retry"
    /\ config = [FromBlock |-> Nil, ToBlock |-> Nil, MaxWorkers |-> 1, ChunkSize |-> 0]
    /\ cancelled = FALSE
    /\ pc = "idle"
    /\ ret = [logs |-> <<>>, err |-> "pending"]
    /\ workChan = <<>> /\ workClosed = FALSE
    /\ resultChan = <<>> /\ resultClosed = FALSE
    /\ wpc = [w \in AllWorkerIds |-> "none"]
    /\ wtask = [w \in AllWorkerIds |-> <<Nil, Nil>>]
    /\ wres = [w \in AllWorkerIds |-> NoResult]
    /\ ppc = "none" /\ currentBlock = Nil
    /\ cpc = "none"
    /\ allLogs = <<>> /\ errors = <<>>
    /\ totalChunks = 0 /\ successfulChunks = 0
    /\ enqueued = <<>> /\ fetches = {} /\ lateFetch = FALSE
    /\ received = <<>>
    /\ failed = {}
    /\ badFrom = Nil
    /\ SBIdle
    /\ hreq = [Limit |-> Nil, Offset |-> Nil]
    /\ hsrv = 0
    /\ hpc = "none"
    /\ offset = 0
    /\ allHistory = <<>>
    /\ hret = [entries |-> <<>>, err |-> "pending"]
    /\ pageReqs = <<>>
    /\ rpc = "top"
    /\ eventChan = <<>>
    /\ evCap \in 1..MaxEvCap
    /\ line = 0
    /\ attempts = 0
    /\ sinceFail = "none"
    /\ taken = 0 /\ lost = 0

\* top of the loop of ReadStreamWithRetry: select { case <-ctx.Done():
\* return; default: }, then ReadStream up to sr.HTTPClient.Do(req)
RSTop ==
    /\ rpc = "top"
    /\ IF cancelled
         THEN /\ rpc' = "returned"
              /\ UNCHANGED <<attempts, sinceFail>>
         ELSE /\ attempts < MaxAttempts
              /\ rpc' = "connect"
              /\ attempts' = attempts + 1
              /\ sinceFail' = "none"
    /\ UNCHANGED <<pqVars, sbVars, hpVars, taken, lost, eventChan, evCap, line>>

\* Do failed or the status is not 200: ReadStream returns an error
RSConnectFail ==
    /\ rpc = "connect"
    /\ rpc' = "delay"
    /\ sinceFail' = "failed"
    /\ UNCHANGED <<pqVars, sbVars, hpVars, taken, lost, eventChan, evCap, line, attempts>>

\* status 200: scanner := bufio.NewScanner(resp.Body)
RSConnectOK ==
    /\ rpc = "connect"
    /\ ~cancelled
    /\ rpc' = "scan"
    /\ line' = 0
    /\ UNCHANGED <<pqVars, sbVars, hpVars, taken, lost, eventChan, evCap, attempts, sinceFail>>

\* scanner.Scan() returned a line: the ctx check, then the line is skipped
\* (empty, ":ping", no "data: " prefix, empty or malformed data) or it is an
\* event to send
RSScanLine ==
    /\ rpc = "scan"
    /\ line < MaxLines
    /\ line' = line + 1
    /\ IF cancelled
         THEN /\ rpc' = "delay"
              /\ sinceFail' = "failed"
         ELSE /\ \E isEvent \in BOOLEAN : rpc' = IF isEvent THEN "send" ELSE "scan"
              /\ UNCHANGED sinceFail
    /\ UNCHANGED <<pqVars, sbVars, hpVars, taken, lost, eventChan, evCap, attempts>>

\* scanner.Scan() returned false and scanner.Err() is nil: the server ended
\* the stream, ReadStream returns nil and the loop starts over
RSScanEOF ==
    /\ rpc = "scan"
    /\ ~cancelled
    /\ rpc' = "top"
    /\ UNCHANGED <<pqVars, sbVars, hpVars, taken, lost, eventChan, evCap, line, attempts, sinceFail>>

\* scanner.Scan() returned false with an error (a cancelled ctx aborts the
\* read of the body): ReadStream returns "error reading stream"
RSScanErr ==
    /\ rpc = "scan"
    /\ rpc' = "delay"
    /\ sinceFail' = "failed"
    /\ UNCHANGED <<pqVars, sbVars, hpVars, taken, lost, eventChan, evCap, line, attempts>>

\* select: case eventChan <- event
RSSendOK ==
    /\ rpc = "send"
    /\ Len(eventChan) < evCap
    /\ eventChan' = Append(eventChan, <<attempts, line>>)
    /\ rpc' = "scan"
    /\ UNCHANGED <<pqVars, sbVars, hpVars, taken, lost, evCap, line, attempts, sinceFail>>

\* select: case <-ctx.Done(): return ctx.Err()
RSSendPlain ==
    /\ FALSE
    /\ UNCHANGED vars

RSSendCancelled ==
    /\ rpc = "send"
    /\ cancelled
    /\ rpc' = "delay"
    /\ sinceFail' = "failed"
    /\ lost' = lost + 1
    /\ UNCHANGED <<pqVars, sbVars, hpVars, taken, eventChan, evCap, line, attempts>>

\* err != nil, select: case <-time.After(retryDelay): continue
RSDelayFire ==
    /\ rpc = "delay"
    /\ rpc' = "top"
    /\ sinceFail' = "waited"
    /\ UNCHANGED <<pqVars, sbVars, hpVars, taken, lost, eventChan, evCap, line, attempts>>

\* err != nil, select: case <-ctx.Done(): return
RSDelayCancelled ==
    /\ rpc = "delay"
    /\ cancelled
    /\ rpc' = "returned"
    /\ UNCHANGED <<pqVars, sbVars, hpVars, taken, lost, eventChan, evCap, line, attempts, sinceFail>>

\* the caller's side: an event is taken from eventChan
RSConsume ==
    /\ eventChan # <<>>
    /\ eventChan' = Tail(eventChan)
    /\ taken' = taken + 1
    /\ UNCHANGED <<pqVars, sbVars, hpVars, lost, rpc, evCap, line, attempts, sinceFail>>

\* ctx is cancelled (the test's timeout expires)
RSCancel ==
    /\ ~cancelled
    /\ rpc # "returned"
    /\ cancelled' = TRUE
    /\ UNCHANGED <<pqNoCancel, sbVars, mevVars>>

RSStep ==
    \/ RSTop \/ RSConnectFail \/ RSConnectOK \/ RSScanLine \/ RSScanEOF
    \/ RSScanErr \/ RSSendOK \/ RSSendCancelled \/ RSDelayFire
    \/ RSDelayCancelled

NextRS ==
    \/ RSTop
    \/ RSConnectFail
    \/ RSConnectOK
    \/ RSScanLine
    \/ RSScanEOF
    \/ RSScanErr
    \/ RSSendOK
    \/ RSSendCancelled
    \/ RSDelayFire
    \/ RSDelayCancelled
    \/ RSConsume
    \/ RSCancel

SpecRS == InitRS /\ [][NextRS]_vars

\* the goroutine of ReadStreamWithRetry keeps running; the consumer and the
\* caller's cancellation are free
FairSpecRS == InitRS /\ [][NextRS]_vars /\ WF_vars(RSStep)

\* ------------------------------------------------- vocabulary of the claims

Range(q) == {q[i] : i \in DOMAIN q}

CountIn(q, x) == Cardinality({i \in DOMAIN q : q[i] = x})

BlocksOf(rs) == UNION {r[1]..r[2] : r \in rs}

ValidRange == config.FromBlock # Nil /\ config.ToBlock # Nil
              /\ config.FromBlock <= config.ToBlock

PoolStarted == ppc # "none"

SingleTaken == pc \in {"single", "singleDoomed"} \/ (pc = "returned" /\ ret.err \in {"nil", "single"} /\ ~PoolStarted)

StoppedByCancel == ppc = "done" /\ currentBlock < config.ToBlock

\* logs is somewhere in all as one run
HasRun(all, logs) ==
    \E i \in 0..(Len(all) - Len(logs)) :
        \A k \in 1..Len(logs) : all[i + k] = logs[k]

\* the chunks the producer loop yields from cur on when nothing stops it
RECURSIVE ProducerChunks(_, _)
ProducerChunks(c, cur) ==
    IF ProducerMore(c, cur)
      THEN <<<<cur, ChunkEnd(c, cur)>>>> \o ProducerChunks(c, ChunkEnd(c, cur) + 1)
      ELSE <<>>

SplitChunks(c) ==
    IF SingleQueryPath(c) THEN <<<<c.FromBlock, c.ToBlock>>>>
    ELSE ProducerChunks(c, c.FromBlock)

\* ------------------------------------------------------------------ C1
\* C1: for from <= to and chunkSize >= 1 the ranges handed to the fetch
\* capability (the direct query, or all chunks the producer enqueues when no
\* cancellation occurs) cover exactly the blocks from..to, the last block
\* included.
C1_RangesCoverFromTo ==
    /\ (ValidRange /\ SingleTaken) => BlocksOf(fetches) = config.FromBlock..config.ToBlock
    /\ (ValidRange /\ ppc = "done" /\ ~cancelled) =>
           BlocksOf(Range(enqueued)) = config.FromBlock..config.ToBlock

\* ------------------------------------------------------------------ C2
\* C2: PaginatedQuery never returns partial data: a nil error means every
\* chunk of the split was enqueued, fetched, received as a success and has
\* its logs in the returned list; any other return carries no logs.
C2_NoPartialData ==
    pc = "returned" =>
        IF ret.err = "nil"
          THEN /\ Len(errors) = 0
               /\ \A ch \in Range(SplitChunks(config)) :
                     /\ ch \in fetches
                     /\ PoolStarted => (ch \in Range(enqueued) /\ ch \in Range(received))
                     /\ HasRun(ret.logs, FilterLogs(ch[1], ch[2]))
          ELSE ret.logs = <<>>

C2_Witness ==
    /\ pc = "returned" /\ ret.err = "nil"
    /\ PoolStarted /\ Len(enqueued) >= 2

\* ------------------------------------------------------------------ C3
\* C3: if the context is cancelled while PaginatedQuery runs in the
\* worker-pool path, PaginatedQuery eventually returns, and it returns a
\* cancellation error with no logs.
C3_CancelReturns ==
    (cancelled /\ pc = "collect") ~>
        (pc = "returned" /\ ret.err = "cancelled" /\ ret.logs = <<>>)

\* ------------------------------------------------------------------ C4
\* C4: after the context is cancelled no worker issues another fetch
\* attempt, neither a retry nor the first attempt of a newly dequeued chunk.
C4_NoFetchAfterCancel == ~lateFetch

\* ------------------------------------------------------------------ C5
\* C5: whenever PaginatedQuery has returned, every worker, the producer and
\* the goroutine closing the result channel have terminated.
C5_NoGoroutineLeft ==
    pc = "returned" =>
        /\ \A w \in AllWorkerIds : wpc[w] \in {"none", "done"}
        /\ ppc \in {"none", "done"}
        /\ cpc \in {"none", "done"}

C5_Witness ==
    /\ pc = "returned" /\ cpc = "done" /\ ppc = "done"
    /\ \A w \in Workers : wpc[w] = "done"
    /\ Len(received) >= 2

\* ------------------------------------------------------------------ C6
\* C6: with no cancellation and no failed result, every enqueued chunk is
\* processed exactly once and the returned list holds the logs of every
\* chunk exactly once, whatever the interleaving.
C6_EachChunkOnce ==
    (pc = "returned" /\ PoolStarted /\ ~cancelled /\ Len(errors) = 0) =>
        /\ ret.err = "nil"
        /\ \A ch \in Range(enqueued) : CountIn(received, ch) = 1
        /\ Len(received) = Len(enqueued)
        /\ \A b \in BlocksOf(Range(enqueued)) : CountIn(ret.logs, b) = 1
        /\ Range(ret.logs) = BlocksOf(Range(enqueued))

\* two workers took part and the results arrived out of block order
C6_Witness ==
    /\ pc = "returned" /\ PoolStarted /\ ~cancelled /\ Len(errors) = 0
    /\ Len(enqueued) >= 3
    /\ \E i \in 1..(Len(ret.logs) - 1) : ret.logs[i] > ret.logs[i + 1]

\* ------------------------------------------------------------------ C7
\* C7: when PaginatedQuery returns from the worker-pool path the collector
\* has received exactly one QueryResult for every chunk put on the task
\* queue, also when cancellation stopped the producer.
C7_ResultPerTask ==
    (pc = "returned" /\ PoolStarted) =>
        /\ totalChunks = Len(enqueued)
        /\ \A ch \in Range(enqueued) : CountIn(received, ch) = CountIn(enqueued, ch)
        /\ Range(received) = Range(enqueued)

\* the producer stopped on cancellation and a chunk was taken from the queue
\* after it
C7_Witness ==
    /\ pc = "returned" /\ PoolStarted
    /\ StoppedByCancel /\ lateFetch
    /\ Len(enqueued) >= 2

\* ------------------------------------------------------------------ C8
\* C8: every block range passed to the fetch capability spans at most
\* chunkSize blocks, in the worker pool and in the direct query.
C8_RangeWithinChunkSize ==
    \A r \in fetches : r[2] - r[1] + 1 <= EffChunkSize(config)

\* ------------------------------------------------------------------ C9
\* C9: the single-query path is taken exactly when to - from + 1 <=
\* chunkSize; it starts no worker, issues one fetch for [from, to] and
\* returns its logs or an error; larger ranges use the worker pool.
C9_SinglePathCondition ==
    (ValidRange /\ pc # "entry") =>
        /\ SingleTaken <=> (config.ToBlock - config.FromBlock + 1 <= EffChunkSize(config))
        /\ PoolStarted <=> ~SingleTaken
        /\ SingleTaken =>
              /\ fetches = {<<config.FromBlock, config.ToBlock>>}
              /\ \A w \in AllWorkerIds : wpc[w] = "none"
              /\ pc = "returned" =>
                    \/ ret = [logs |-> FilterLogs(config.FromBlock, config.ToBlock), err |-> "nil"]
                    \/ ret = [logs |-> <<>>, err |-> "single"]

\* ------------------------------------------------------------------ C10
\* C10: with FromBlock or ToBlock absent, or FromBlock > ToBlock, the call
\* returns a validation error at once: no fetch, no goroutine, no logs.
C10_ValidationFirst ==
    ((config.FromBlock = Nil \/ config.ToBlock = Nil
        \/ config.FromBlock > config.ToBlock) /\ pc # "entry") =>
        /\ pc = "returned"
        /\ ret = [logs |-> <<>>, err |-> "validation"]
        /\ fetches = {}
        /\ ppc = "none" /\ cpc = "none"
        /\ \A w \in AllWorkerIds : wpc[w] = "none"

C10_Witness ==
    /\ pc = "returned" /\ ret.err = "validation"
    /\ config.FromBlock # Nil /\ config.ToBlock # Nil
    /\ config.FromBlock > config.ToBlock

\* ------------------------------------------------------------------ C11
\* C11: if one chunk's fetch always fails and the context is never
\* cancelled, PaginatedQuery returns an aggregate error naming that chunk's
\* range after boundedly many attempts; it does not retry it for ever.
BadChunkInSplit ==
    /\ ValidRange /\ ~SingleQueryPath(config)
    /\ \E ch \in Range(ProducerChunks(config, config.FromBlock)) : ch[1] = badFrom

C11_FailingChunkReported ==
    (pc = "collect" /\ BadChunkInSplit) ~>
        \/ cancelled
        \/ /\ pc = "returned" /\ ret.err = "aggregate"
           /\ \E e \in Range(errors) : e.FromBlock = badFrom

\* ------------------------------------------------------------------ C12
\* C12: when chunks report a failed result and the context is not
\* cancelled, the returned error lists every failing chunk (range and
\* worker), not only the first, and the returned log list is nil.
NamedInError == IF ret.err = "aggregate" THEN Range(errors) ELSE {}

C12_EveryFailureListed ==
    (pc = "returned" /\ PoolStarted /\ ~cancelled /\ failed # {}) =>
        /\ ret.logs = <<>>
        /\ ret.err \notin {"nil", "pending"}
        /\ \A f \in failed : f \in NamedInError

\* ------------------------------------- vocabulary of the bundle claims

Sigs == sbcfg.EventSignatures

Addrs == sbcfg.Addresses

\* step i (1-based) of the sequence is satisfied by the receipt of
\* transaction t of block b, as the specification defines it
SpecStepOK(b, t, i) ==
    /\ t + 1 <= Len(BlockTxs(b))
    /\ \E k \in DOMAIN BlockTxs(b)[t + 1] :
          LET lg == BlockTxs(b)[t + 1][k] IN
            /\ lg.Topic0 = Sigs[i]
            /\ (Len(Addrs) = 0 \/ Addrs[i] = "zero" \/ lg.Address = Addrs[i])

\* transactions s, s+1, ... of block b satisfy the whole sequence
SpecSequenceOK(b, s) == \A i \in 1..Len(Sigs) : SpecStepOK(b, s + i - 1, i)

\* candidate starts: <<block, index>> with a log in what step 1 returned
Step1Candidates == {<<ret.logs[k].BlockNumber, ret.logs[k].TxIndex>> : k \in DOMAIN ret.logs}

Step1Done == sbpc \in {"blocks", "block", "blockDoomed", "collect", "returned"}

SpecBundle(b, s) == [Block |-> b, Txs |-> [k \in 1..Len(Sigs) |-> s + k - 1]]

SBConfigInvalid ==
    \/ Len(Sigs) = 0
    \/ sbcfg.StartBlock = Nil \/ sbcfg.EndBlock = Nil
    \/ sbcfg.StartBlock > sbcfg.EndBlock
    \/ (Len(Addrs) > 0 /\ Len(Addrs) # Len(Sigs))

\* ------------------------------------------------------------------ C13
\* C13: every bundle SearchBundle collects or returns has len(signatures)
\* transactions of one block at consecutive indices, and the receipt of its
\* i-th transaction has a log with topic 0 = signatures[i] emitted by
\* addresses[i] unless that address is zero or no addresses were given.
C13_BundlesValid ==
    \A k \in DOMAIN bundles :
        LET bd == bundles[k] IN
          /\ Len(bd.Txs) = Len(Sigs)
          /\ \A i \in 1..Len(bd.Txs) :
                /\ bd.Txs[i] = bd.Txs[1] + i - 1
                /\ SpecStepOK(bd.Block, bd.Txs[i], i)

C13_Witness ==
    /\ sbpc = "returned" /\ sbret.err = "nil"
    /\ Len(sbret.bundles) >= 2
    /\ Len(Sigs) = 2
    /\ sbret.bundles = bundles

\* ------------------------------------------------------------------ C14
\* C14: with every block and receipt fetch succeeding, the result holds
\* exactly the bundles of the candidate starts that step 1 returned and
\* whose transactions satisfy every step, each once; the 5-transaction
\* block with sigA at index 2 and sigB at index 3 gives the one bundle
\* [tx2, tx3], and none without sigB at index 3.
C14_CompleteForCandidates ==
    (sbpc = "returned" /\ sbret.err = "nil" /\ lostBlocks = {} /\ lostCands = {}) =>
        /\ \A c \in Step1Candidates :
              SpecSequenceOK(c[1], c[2]) =>
                  CountIn(sbret.bundles, SpecBundle(c[1], c[2])) = 1
        /\ \A k \in DOMAIN sbret.bundles :
              /\ <<sbret.bundles[k].Block, sbret.bundles[k].Txs[1]>> \in Step1Candidates
              /\ SpecSequenceOK(sbret.bundles[k].Block, sbret.bundles[k].Txs[1])

\* the 5-transaction block 0 was searched for [A, B] and gave [tx2, tx3]
C14_Witness ==
    /\ sbpc = "returned" /\ sbret.err = "nil" /\ lostBlocks = {} /\ lostCands = {}
    /\ Len(BlockTxs(0)) = 5 /\ Sigs = <<"A", "B">>
    /\ {sbret.bundles[k] : k \in {j \in DOMAIN sbret.bundles : sbret.bundles[j].Block = 0}}
          = {[Block |-> 0, Txs |-> <<2, 3>>]}

\* ------------------------------------------------------------------ C15
\* C15: with the zero address at position 0, step 1 finds a candidate start
\* for every first-signature log of the queried blocks, whatever its emitter.
C15_ZeroAddressStep0Wildcard ==
    (Step1Done /\ ret.err = "nil" /\ Len(Addrs) > 0 /\ Addrs[1] = "zero") =>
        \A b \in BlocksOf(fetches) : \A t \in DOMAIN BlockTxs(b) :
            (\E k \in DOMAIN BlockTxs(b)[t] : BlockTxs(b)[t][k].Topic0 = Sigs[1])
                => <<b, t - 1>> \in Step1Candidates

\* ------------------------------------------------------------------ C16
\* C16: with the zero address at position 1, a candidate whose second
\* transaction has a log with topic 0 = signatures[1] is accepted whatever
\* address emitted that log.
C16_ZeroAddressStep1Wildcard ==
    (sbpc = "returned" /\ sbret.err = "nil" /\ Len(Sigs) = 2 /\ Len(Addrs) = 2
        /\ Addrs[2] = "zero") =>
        \A c \in Step1Candidates :
            (/\ c[1] \notin lostBlocks /\ c \notin lostCands
             /\ SpecStepOK(c[1], c[2], 1)
             /\ c[2] + 2 <= Len(BlockTxs(c[1]))
             /\ \E k \in DOMAIN BlockTxs(c[1])[c[2] + 2] :
                   BlockTxs(c[1])[c[2] + 2][k].Topic0 = Sigs[2])
            => \E k \in DOMAIN sbret.bundles :
                   sbret.bundles[k] = [Block |-> c[1], Txs |-> <<c[2], c[2] + 1>>]

\* two accepted bundles whose second-step logs come from different emitters
C16_Witness ==
    /\ sbpc = "returned" /\ sbret.err = "nil" /\ Len(Sigs) = 2 /\ Len(Addrs) = 2
    /\ Addrs[2] = "zero"
    /\ \E j, k \in DOMAIN sbret.bundles :
          /\ \E l \in DOMAIN BlockTxs(sbret.bundles[j].Block)[sbret.bundles[j].Txs[2] + 1] :
                LET lg == BlockTxs(sbret.bundles[j].Block)[sbret.bundles[j].Txs[2] + 1][l]
                IN lg.Topic0 = Sigs[2] /\ lg.Address = "X"
          /\ \A l \in DOMAIN BlockTxs(sbret.bundles[k].Block)[sbret.bundles[k].Txs[2] + 1] :
                BlockTxs(sbret.bundles[k].Block)[sbret.bundles[k].Txs[2] + 1][l].Address = "Y"

\* ------------------------------------------------------------------ C17
\* C17: SearchBundle with signatures, a valid range and no addresses
\* completes without error or crash.
C17_AddressesOptional ==
    (Len(Sigs) > 0 /\ Len(Addrs) = 0 /\ sbcfg.StartBlock # Nil
        /\ sbcfg.EndBlock # Nil /\ sbcfg.StartBlock <= sbcfg.EndBlock) =>
        /\ sbpc # "panicked"
        /\ sbpc = "returned" => sbret.err \in {"nil", "step1"}

\* ------------------------------------------------------------------ C18
\* C18: a malformed configuration (no signature, absent StartBlock or
\* EndBlock, StartBlock > EndBlock, addresses of another length than the
\* signatures) is rejected with an error before any log, block or receipt
\* fetch.
C18_ValidationBeforeWork ==
    (SBConfigInvalid /\ sbpc \notin {"none", "entry"}) =>
        /\ sbpc = "returned"
        /\ sbret = [bundles |-> <<>>, err |-> "validation"]
        /\ pc = "idle"
        /\ fetches = {} /\ blockFetches = {} /\ rcptFetches = {}

C18_Witness ==
    /\ sbpc = "returned" /\ sbret.err = "validation"
    /\ Len(Sigs) > 0 /\ sbcfg.StartBlock # Nil /\ sbcfg.EndBlock # Nil
    /\ sbcfg.StartBlock <= sbcfg.EndBlock
    /\ Len(Addrs) > 0 /\ Len(Addrs) # Len(Sigs)

C20_CancelSurfaces ==
    (sbpc = "returned" /\ midCancel) => sbret.err = "cancelled"

\* ------------------------------------------------------------------ C21
\* C21: at every moment of a SearchBundle call the number of candidate
\* verifications with a receipt fetch in flight is at most MaxWorkers (3
\* when MaxWorkers <= 0), however many candidate starts a block has.
C21_VerifiersBounded ==
    sbpc # "none" =>
        Cardinality({i \in TxIdx : vpc[i] \in {"rcpt", "rcptDoomed"}})
            <= (IF sbcfg.MaxWorkers <= 0 THEN SBDefaultMaxWorkers ELSE sbcfg.MaxWorkers)

\* ------------------------------------------------------------------ C22
\* C22: in the worker-pool path exactly MaxWorkers workers are started (5
\* when MaxWorkers <= 0), whatever the number of chunks, and at every moment
\* at most MaxWorkers fetch calls are in flight.
C22_ExactlyMaxWorkers ==
    PoolStarted =>
        LET n == IF config.MaxWorkers <= 0 THEN DefaultMaxWorkers ELSE config.MaxWorkers IN
          /\ {w \in AllWorkerIds : wpc[w] # "none"} = 1..n
          /\ Cardinality({w \in AllWorkerIds : wpc[w] \in {"infetch", "doomed"}}) <= n

\* more chunks than workers, and both workers have a fetch in flight
C22_Witness ==
    /\ PoolStarted
    /\ config.MaxWorkers = 2
    /\ Len(ProducerChunks(config, config.FromBlock)) >= 3
    /\ \A w \in 1..2 : wpc[w] = "infetch"

\* ------------------------------------------------------------------ C23
\* C23: the chunks the producer enqueues are in strictly ascending order,
\* disjoint and adjacent: the first starts at from, each later one starts at
\* the previous chunk's end + 1, and none ends after to.
C23_ChunksAdjacent ==
    PoolStarted =>
        /\ Len(enqueued) > 0 => enqueued[1][1] = config.FromBlock
        /\ \A i \in DOMAIN enqueued :
              /\ enqueued[i][1] <= enqueued[i][2]
              /\ enqueued[i][2] <= config.ToBlock
        /\ \A i \in 1..(Len(enqueued) - 1) : enqueued[i + 1][1] = enqueued[i][2] + 1

\* the producer has finished a split whose last chunk was clipped to `to`
C23_Witness ==
    /\ ppc = "done" /\ ~cancelled
    /\ Len(enqueued) >= 2
    /\ enqueued[Len(enqueued)][2] = config.ToBlock
    /\ enqueued[Len(enqueued)][2] - enqueued[Len(enqueued)][1] + 1 < config.ChunkSize

\* ------------------------------------------------------------------ C26
\* C26: in the merged result the logs of one chunk are one contiguous run
\* in the order the fetch capability returned them, whatever the order in
\* which the chunks' results were merged.
C26_ChunkRunsContiguous ==
    /\ \A i \in DOMAIN received :
          (\A f \in failed : f.FromBlock # received[i][1]) =>
              HasRun(allLogs, FilterLogs(received[i][1], received[i][2]))
    /\ (pc = "returned" /\ ret.err = "nil" /\ PoolStarted) =>
          \A i \in DOMAIN enqueued :
              HasRun(ret.logs, FilterLogs(enqueued[i][1], enqueued[i][2]))

\* two chunks of two logs each were merged in the opposite order of the split
C26_Witness ==
    /\ pc = "returned" /\ ret.err = "nil" /\ PoolStarted
    /\ Len(enqueued) = 2 /\ Len(received) = 2
    /\ received[1] = enqueued[2] /\ received[2] = enqueued[1]
    /\ \A i \in 1..2 : enqueued[i][2] > enqueued[i][1]
    /\ Len(ret.logs) = 4

\* ------------------------------------------------------------------ C27
\* C27: when several candidate starts of one block are each valid, every
\* one of them yields its own bundle, also when the bundles share
\* transactions: for [A, A] and transactions s, s+1, s+2 all emitting A,
\* both [s, s+1] and [s+1, s+2] are returned.
C27_OverlappingBundlesKept ==
    (sbpc = "returned" /\ sbret.err = "nil" /\ lostBlocks = {} /\ lostCands = {}) =>
        \A c, d \in Step1Candidates :
            (/\ c[1] = d[1] /\ c[2] < d[2] /\ d[2] - c[2] < Len(Sigs)
             /\ SpecSequenceOK(c[1], c[2]) /\ SpecSequenceOK(d[1], d[2]))
            => /\ CountIn(sbret.bundles, SpecBundle(c[1], c[2])) = 1
               /\ CountIn(sbret.bundles, SpecBundle(d[1], d[2])) = 1

\* [A, A] on a block whose transactions 0, 1, 2 all emit A: both bundles
C27_Witness ==
    /\ sbpc = "returned" /\ sbret.err = "nil"
    /\ Sigs = <<"A", "A">>
    /\ Len(BlockTxs(1)) = 3
    /\ \A t \in 1..3 : \E k \in DOMAIN BlockTxs(1)[t] : BlockTxs(1)[t][k].Topic0 = "A"
    /\ \E j, k \in DOMAIN sbret.bundles :
          /\ sbret.bundles[j] = [Block |-> 1, Txs |-> <<0, 1>>]
          /\ sbret.bundles[k] = [Block |-> 1, Txs |-> <<1, 2>>]

\* ------------------------------------------------------------------ C28
\* C28: the sequence of chunk boundaries the producer enqueues is a function
\* of (from, to, chunkSize) alone: the i-th chunk is the same in every
\* execution, whatever the scheduling, the fetch results and the number of
\* workers, and an uncancelled producer enqueues all of them.
NthChunk(F, T, C, i) == <<F + (i - 1) * C, Min(F + i * C - 1, T)>>

C28_SplitDeterministic ==
    PoolStarted =>
        LET C == IF config.ChunkSize <= 0 THEN DefaultChunkSize ELSE config.ChunkSize
            F == config.FromBlock
            T == config.ToBlock
        IN /\ \A i \in DOMAIN enqueued : enqueued[i] = NthChunk(F, T, C, i)
           /\ (ppc = "done" /\ ~cancelled) =>
                 /\ F + Len(enqueued) * C >= T
                 /\ Len(enqueued) > 0 => F + (Len(enqueued) - 1) * C < T

\* a complete split of three or more chunks in an execution with two
\* workers and a failed fetch
C28_Witness ==
    /\ PoolStarted /\ ppc = "done" /\ ~cancelled
    /\ Len(enqueued) >= 3
    /\ config.MaxWorkers = 2
    /\ failed # {}

\* ------------------------------------------------------------------ C29
\* C29: a worker of src/query/query.go whose fetch failed keeps its chunk
\* and fetches it again, taking no other task, until the fetch has
\* succeeded; so every QueryResult it sends has a nil error and carries the
\* logs of its chunk.
C29_RetrySameChunk ==
    /\ [](impl = "retry" =>
            /\ \A i \in DOMAIN resultChan : ~resultChan[i].Err
            /\ errors = <<>>
            /\ \A w \in AllWorkerIds :
                  wpc[w] \in {"infetch", "doomed", "sleep", "send"} => wtask[w] \in Range(enqueued))
    /\ [][impl = "retry" =>
            \A w \in AllWorkerIds :
                (wtask[w] # <<Nil, Nil>> /\ wtask'[w] # wtask[w]) =>
                    /\ wpc[w] = "send"
                    /\ ~wres[w].Err
                    /\ <<wres[w].FromBlock, wres[w].ToBlock>> = wtask[w]
                    /\ Len(resultChan') = Len(resultChan) + 1
                    /\ resultChan'[Len(resultChan')] = wres[w]]_vars

\* worker 1 took the first chunk and sleeps after a failed fetch of it;
\* meanwhile worker 2 has delivered the results of two later chunks
C29_Witness ==
    /\ impl = "retry"
    /\ wpc[1] = "sleep"
    /\ Len(enqueued) >= 3
    /\ wtask[1] = enqueued[1]
    /\ Len(received) >= 2
    /\ successfulChunks >= 2

\* ------------------------------------------------------------------ C25
\* C25: the producer closes the task queue exactly once in every execution,
\* after the last chunk without cancellation and after observing the
\* cancellation otherwise, also when the queue is full and no worker is
\* receiving; once closed the queue stays closed and nothing is sent on it.
C25_ProducerClosesQueue ==
    /\ [][workClosed => (workClosed' /\ Len(workChan') <= Len(workChan))]_vars
    /\ [](workClosed => ppc = "done")
    /\ (ppc = "loop") ~> workClosed

\* ------------------------------------------------------------------ C30
\* C30: if no chunk's fetch fails forever, a call of PaginatedQuery that is
\* not cancelled returns, for every MaxWorkers >= 1 and fewer chunks than,
\* as many chunks as and more chunks than the channel capacity: producer,
\* workers and collector never deadlock on the two bounded channels.
C30_Terminates == <>(pc = "returned" \/ cancelled)

\* returned without cancellation after more chunks than the capacity of
\* the channels went through them
C30_Witness ==
    /\ pc = "returned" /\ ~cancelled /\ PoolStarted
    /\ ret.err = "nil"
    /\ config.MaxWorkers = 1
    /\ Len(enqueued) > 2 * config.MaxWorkers
    /\ Len(received) = Len(enqueued)

\* ------------------------------------------------------------------ C24
\* C24 as stated: for the range [100, 100050] with chunkSize = 10000, every
\* fetch succeeding and no cancellation, PaginatedQuery issues exactly 11
\* chunk queries.
ExampleRange ==
    /\ config.FromBlock = 100 /\ config.ToBlock = 100050
    /\ config.ChunkSize = 10000

C31_ResultChanClosedOnce ==
    /\ [](resultClosed =>
            /\ cpc = "done"
            /\ \A w \in Workers : wpc[w] = "done")
    /\ []((pc = "returned" /\ PoolStarted) => resultClosed)
    /\ [][(resultClosed => (resultClosed' /\ Len(resultChan') <= Len(resultChan)))
          /\ (cpc = "done" => cpc' = "done")
          /\ (resultClosed' /\ ~resultClosed => cpc = "wait")]_vars
    /\ [][(allLogs' # allLogs \/ errors' # errors) =>
             /\ pc = "collect" /\ resultChan # <<>>
             /\ resultChan' = Tail(resultChan)
             /\ wpc' = wpc /\ ppc' = ppc /\ cpc' = cpc
             /\ \/ (~Head(resultChan).Err /\ errors' = errors
                      /\ Len(allLogs') >= Len(allLogs)
                      /\ SubSeq(allLogs', 1, Len(allLogs)) = allLogs)
                \/ (Head(resultChan).Err /\ allLogs' = allLogs
                      /\ Len(errors') = Len(errors) + 1
                      /\ SubSeq(errors', 1, Len(errors)) = errors)]_vars

\* the channel was closed while two results were still buffered in it, and
\* the collector has merged one of them since
C31_Witness ==
    /\ resultClosed /\ pc = "collect"
    /\ config.MaxWorkers = 2
    /\ Len(resultChan) >= 1
    /\ Len(received) >= 2
    /\ Len(allLogs) >= 1

\* ------------------------------------------------------------------ C32
\* C32: once PaginatedFilterLogs has returned the error of a failed chunk
\* fetch, none of its goroutines is left blocked: no worker waits to send
\* on a full result channel that nobody reads any more, and the producer
\* does not wait to send on a full task queue whose workers are all stuck.
C32_NoGoroutineBlockedAfterError ==
    (impl = "filterlogs" /\ pc = "returned" /\ ret.err = "chunk") =>
        /\ ~ \E w \in Workers :
                wpc[w] = "send" /\ Len(resultChan) >= FLChanCap(config)
        /\ ~ (/\ ppc = "loop"
              /\ ProducerMore(config, currentBlock)
              /\ Len(workChan) >= FLChanCap(config)
              /\ \A w \in Workers :
                    wpc[w] = "send" /\ Len(resultChan) >= FLChanCap(config))

\* ------------------------------------------------------------------ C33
\* C33: within one SearchBundle call, from the first block fetch or receipt
\* fetch on, every chunk worker, the producer and the closing goroutine of
\* the step-1 range query have terminated; so a chunk query is never in
\* flight together with a block fetch or a receipt fetch.
C33_LevelsDoNotOverlap ==
    LET chunkQueryInFlight ==
            \/ pc \in {"single", "singleDoomed"}
            \/ \E w \in AllWorkerIds : wpc[w] \in {"infetch", "doomed"}
        secondLevelInFlight ==
            \/ sbpc \in {"block", "blockDoomed"}
            \/ \E idx \in TxIdx : vpc[idx] \in {"rcpt", "rcptDoomed"}
    IN /\ (blockFetches # {} \/ rcptFetches # {}) =>
              /\ pc = "returned"
              /\ \A w \in AllWorkerIds : wpc[w] \in {"none", "done"}
              /\ ppc \in {"none", "done"}
              /\ cpc \in {"none", "done"}
       /\ ~(chunkQueryInFlight /\ secondLevelInFlight)

\* a receipt fetch is in flight after a step 1 that ran the worker pool
C33_Witness ==
    /\ sbpc = "collect"
    /\ \E idx \in TxIdx : vpc[idx] = "rcpt"
    /\ Len(enqueued) >= 2
    /\ wpc[1] = "done" /\ cpc = "done"

\* ------------------------------------------------------------------ C34
\* C34: SearchBundle collects at most one bundle per block and start index,
\* also when the start transaction carries several logs matching the first
\* signature: no two collected bundles begin at the same transaction of the
\* same block.
C34_OneBundlePerStart ==
    /\ \A i, j \in DOMAIN bundles :
          (bundles[i].Block = bundles[j].Block
             /\ bundles[i].Txs[1] = bundles[j].Txs[1]) => i = j
    /\ \A i, j \in DOMAIN sbret.bundles :
          (sbret.bundles[i].Block = sbret.bundles[j].Block
             /\ sbret.bundles[i].Txs[1] = sbret.bundles[j].Txs[1]) => i = j

\* step 1 returned two logs of transaction 0 of block 0, and the returned
\* bundles hold the one bundle that starts there
C34_Witness ==
    /\ sbpc = "returned" /\ sbret.err = "nil"
    /\ Cardinality({k \in DOMAIN ret.logs :
                      ret.logs[k].BlockNumber = 0 /\ ret.logs[k].TxIndex = 0}) = 2
    /\ \E i \in DOMAIN sbret.bundles :
          sbret.bundles[i].Block = 0 /\ sbret.bundles[i].Txs[1] = 0

\* ------------------------------------------------------------------ C35
\* C35: a candidate start with fewer than len(signatures) transactions from
\* its index to the end of the block never fetches a receipt; a candidate
\* fetches the receipt of step i only for a transaction that exists and
\* only when its steps before i have all matched; and every receipt ever
\* fetched is such a step of some candidate start.
C35_ReceiptsUpToFirstFailure ==
    LET n == Len(Sigs)
        reaches(b, s, i) ==
            /\ Len(BlockTxs(b)) - s >= n
            /\ i \in 0..(n - 1)
            /\ s + i < Len(BlockTxs(b))
            /\ \A j \in 1..i : SpecStepOK(b, s + j - 1, j)
    IN /\ \A idx \in TxIdx :
            vpc[idx] \in {"rcpt", "rcptDoomed"} => reaches(curBlk, idx, vstep[idx])
       /\ \A idx \in TxIdx :
            vpc[idx] = "send" => (reaches(curBlk, idx, n - 1) /\ vstep[idx] = n - 1)
       /\ \A f \in rcptFetches :
            \E c \in Step1Candidates :
                c[1] = f[1] /\ reaches(f[1], c[2], f[2] - c[2])

\* block 2 holds one transaction, which emits the first of two signatures:
\* its candidate start was discarded and no receipt of block 2 was fetched
C35_Witness ==
    /\ Len(Sigs) = 2
    /\ curBlk = 2 /\ Len(BlockTxs(2)) = 1
    /\ <<2, 0>> \in Step1Candidates
    /\ sbpc = "collect" /\ vpc[0] = "done"
    /\ ~\E f \in rcptFetches : f[1] = 2
    /\ rcptFetches # {}

\* ------------------------------------------------------------------ C36
\* C36: HistoryPaginated asks for pages of 500 entries at offsets 0, 500,
\* 1000, ... in that order, a further page only after a full one; it
\* returns without error exactly when the last page it asked for was empty
\* or short, and then returns the entries of all pages in request order;
\* when a page request fails, or ctx is found cancelled after a full page,
\* it returns an error and no entries.
C36_PagesInOrder ==
    /\ [](/\ \A i \in DOMAIN pageReqs : pageReqs[i] = <<500, 500 * (i - 1)>>
          /\ \A i \in DOMAIN pageReqs : i < Len(pageReqs) => hsrv >= 500 * i
          /\ hpc = "returned" =>
                /\ hret.err \in {"nil", "page", "cancelled"}
                /\ hret.err = "nil" =>
                      /\ Len(pageReqs) >= 1
                      /\ hsrv < 500 * Len(pageReqs)
                      /\ hret.entries = [k \in 1..hsrv |-> k - 1]
                /\ hret.err # "nil" => hret.entries = <<>>
                /\ hret.err = "cancelled" =>
                      (cancelled /\ hsrv >= 500 * Len(pageReqs)))
    /\ [][(hpc = "page" /\ cancelled /\ hsrv >= 500 * Len(pageReqs)) =>
             (hpc' = "returned" /\ hret'.err \in {"page", "cancelled"}
                /\ hret'.entries = <<>>)]_vars
    /\ [][(hpc \in {"page", "pageDoomed"} /\ pageReqs' = pageReqs /\ hpc' # hpc) =>
             \/ hpc' = "returned"
             \/ (hpc' = "loop" /\ hsrv >= 500 * Len(pageReqs))]_vars

\* two full pages and a page of one entry were fetched and returned
C36_Witness ==
    /\ hpc = "returned" /\ hret.err = "nil"
    /\ pageReqs = << <<500, 0>>, <<500, 500>>, <<500, 1000>> >>
    /\ Len(hret.entries) = 1001

\* ------------------------------------------------------------------ C37
\* C37: a call HistoryWithPagination(limit, offset) sends the history
\* endpoint the caller's limit and offset, and the entries it returns start
\* at the given offset and are at most limit many.
C37_CallerPagination ==
    hreq.Limit # Nil =>
        /\ \A i \in DOMAIN pageReqs : pageReqs[i] = <<hreq.Limit, hreq.Offset>>
        /\ (hpc = "returned" /\ hret.err = "nil") =>
              /\ Len(hret.entries) <= hreq.Limit
              /\ \A k \in DOMAIN hret.entries :
                    hret.entries[k] = hreq.Offset + k - 1

\* ------------------------------------------------------------------ C38
\* C38: ReadStreamWithRetry returns only when ctx is cancelled; after a
\* failed ReadStream it starts the next one only after the retry delay has
\* elapsed, and it leaves the delay only to reconnect or, cancelled, to
\* return; it starts no ReadStream once cancelled; and once ctx is cancelled
\* it returns, wherever it is: connecting, reading the stream, blocked on a
\* full eventChan that nobody reads, or waiting out the delay.
C38_StreamRetryStopsOnCancel ==
    /\ [](rpc = "returned" => cancelled)
    /\ [](rpc = "delay" => sinceFail = "failed")
    /\ [][attempts' > attempts =>
             (sinceFail # "failed" /\ ~cancelled /\ rpc' = "connect")]_vars
    /\ [][(sinceFail = "failed" /\ sinceFail' # "failed") =>
             (rpc = "delay" /\ sinceFail' = "waited" /\ rpc' = "top")]_vars
    /\ [][(rpc = "delay" /\ rpc' # "delay") =>
             (rpc' = "top" \/ (rpc' = "returned" /\ cancelled))]_vars
    /\ [][(rpc = "top" /\ rpc' # "top") =>
             IF cancelled THEN rpc' = "returned" ELSE rpc' = "connect"]_vars
    /\ cancelled ~> (rpc = "returned")

\* in its second ReadStream the goroutine was blocked sending an event on
\* the full eventChan, which nobody read, when ctx was cancelled; the
\* function has returned
C38_Witness ==
    /\ rpc = "returned"
    /\ attempts = 2
    /\ lost >= 1
    /\ Len(eventChan) = evCap
    /\ taken = 0

\* ------------------------------------------------------------------ C39
\* C39: SearchBundle leaves the collection of a block, for the next block
\* or to return, only when every verifier goroutine of that block and the
\* closing goroutine have finished and bundleChan is drained; bundleChan is
\* closed only after all verifiers are done; a verifier that has a bundle
\* always finds room in bundleChan; and outside the collection of a block no
\* verifier is running.
C39_VerifiersDoneBeforeNextBlock ==
    /\ [][(sbpc = "collect" /\ sbpc' # "collect") =>
             /\ \A idx \in TxIdx : vpc[idx] \in {"none", "done"}
             /\ vcl = "done" /\ bundleClosed /\ bundleChan = <<>>]_vars
    /\ [][curBlk' # curBlk =>
             (sbpc = "blocks" /\ \A idx \in TxIdx : vpc[idx] = "none")]_vars
    /\ [](bundleClosed => \A idx \in TxIdx : vpc[idx] \in {"none", "done"})
    /\ [](Len(bundleChan) + Cardinality({idx \in TxIdx : vpc[idx] = "send"})
            <= Cardinality({c \in Step1Candidates : c[1] = curBlk}))
    /\ [](sbpc # "collect" =>
            (vcl = "none" /\ \A idx \in TxIdx : vpc[idx] = "none"))

\* both candidates of a block have put their bundle into bundleChan and the
\* channel is closed before the collector has taken either; an earlier
\* block has been processed
C39_Witness ==
    /\ sbpc = "collect"
    /\ bundleClosed /\ Len(bundleChan) = 2
    /\ Cardinality(blockFetches) >= 2

====
